---- MODULE Spec2Model ----
(***************************************************************************)
(* A model of the ext2 engine of theSprog/ext2fs: the bitmap allocator     *)
(* (fs/src/ext2/allocator.rs, fs/src/ext2/blockgroup.rs) and the file      *)
(* read path of the on-disk inode (fs/src/ext2/disk_inode.rs,              *)
(* fs/src/ext2/inode.rs), and the name space: path walk with symlinks,     *)
(* directory records, link and create_file (fs/src/ext2/dir.rs,            *)
(* fs/src/ext2/filesystem.rs, fs/src/ext2/layout.rs, fs/src/vfs/path.rs).  *)
(* Further parts: the block cache behind read_disk_inode and               *)
(* modify_disk_inode with flush and reopening, the mutexes the operations  *)
(* take, and the permissions of metadata() (fs/src/ext2/disk_inode.rs,     *)
(* fs/src/vfs/meta.rs).                                                    *)
(*                                                                         *)
(* Sizes are scaled down: a block is BLOCK_SIZE = 4 bytes of BYTE_BITS = 2 *)
(* bits, a bitmap word has UNIT_WIDTH = 2 bits.  The relations of the      *)
(* source are kept: BLOCK_BITS = BLOCK_SIZE * BYTE_BITS, and the bitmap    *)
(* view has BLOCK_SIZE / UNIT_WIDTH words.                                 *)
(*                                                                         *)
(* A call that panics (assert, index out of bounds, arithmetic overflow in *)
(* a build with overflow checks, todo!, unreachable!, unwrap of None,      *)
(* recursion without end) ends the program:                                *)
(* call.result is then a "panic:..." value and nothing is enabled.  An     *)
(* operator's parameter checks says whether the build has overflow checks  *)
(* (a debug build panics on overflow, a release build wraps); every call   *)
(* is taken for both builds.                                               *)
(***************************************************************************)
EXTENDS Integers, Sequences, FiniteSets, TLC

VARIABLES
    sb,               \* Superblock: free_blocks_count, r_blocks_count, free_inodes_count
    bg,               \* Ext2BlockGroupDesc per group: free_blocks_count, free_inodes_count, dirs_count
    block_bitmap,     \* per group: the block bitmap block, bit index -> 0 (free) / 1 (used)
    inode_bitmap,     \* per group: the inode bitmap, bit index -> 0 / 1
    call,             \* the last call: op, arg, result, ret
    pre,              \* sb, bg and the bitmaps as they were when the last call started
    file,             \* an on-disk inode (Ext2Inode): size_low, pointers
    disk,             \* block id -> content of the block (data bytes or pointers)
    rd,               \* the last read_at: offset, len, ret, buf
    reader,           \* the chunked read loop of test_rw: chunk, offset, acc, steps, done
    inodes,           \* inode id -> the on-disk inode: filetype, hard_links, directory records, symlink target
    fsop,             \* the last call on Ext2FileSystem: op, paths, result
    preFs,            \* inodes and the allocator counters as they were when the last call started
    device,           \* block id -> the value of the block on the device
    cache,            \* block id -> the entry of the block cache: resident, buf, dirty
    cop,              \* the last call that went through the cache
    shadow,           \* block id -> the value last written through the cache, and how it travelled
    writes,           \* the number of modify calls so far
    thr,              \* thread -> the call it runs: op, pc, the mutexes it holds
    meta,             \* a mode word and the permissions metadata() reports for it
    task,             \* thread -> its call when calls run concurrently: op, arguments, position, result
    handed            \* block id -> the number of lists alloc_data returned that name it since it was last freed

vars == <<sb, bg, block_bitmap, inode_bitmap, call, pre, file, disk, rd, reader,
          inodes, fsop, preFs, device, cache, cop, shadow, writes, thr, meta,
          task, handed>>

allocVars == <<sb, bg, block_bitmap, inode_bitmap, call, pre>>
fileVars == <<file, disk, rd, reader>>
dirVars == <<inodes, fsop, preFs>>
cacheVars == <<device, cache, cop, shadow, writes>>
extVars == <<device, cache, cop, shadow, writes, thr, meta, task, handed>>

-----------------------------------------------------------------------------
(* Sizes.                                                                  *)

\* blockgroup.rs: const UNIT_WIDTH: usize = 64 (scaled)
UNIT_WIDTH == 2
\* lib.rs: block::SIZE = 4096 (scaled)
BLOCK_SIZE == 4
\* lib.rs: the 8 of block::BITS = SIZE * 8 (scaled)
BYTE_BITS == 2
\* lib.rs: block::BITS
BLOCK_BITS == BLOCK_SIZE * BYTE_BITS
\* blockgroup.rs: type BitmapBlock = [u64; block::SIZE / UNIT_WIDTH]: the words of the view
BitmapWords == BLOCK_SIZE \div UNIT_WIDTH
\* the number of block groups of the image (blockgroups.len())
NumGroups == 2
\* superblock.blocks_per_group of the image: one full bitmap block per group
blocks_per_group == BLOCK_BITS
\* superblock.inodes_per_group of the image
inodes_per_group == 4
\* u16 arithmetic of the descriptor counters
U16 == 65536
\* stands for 2^32 (u32) and 2^64 (usize) in wrapping arithmetic
WRAP == 1048576

\* bounds of the inputs
MaxNeeded == 3
MaxFreed == 2
MaxReserved == 1

Groups == 1..NumGroups
Bits == 0..(BLOCK_BITS - 1)

-----------------------------------------------------------------------------
(* Helpers.                                                                *)

RECURSIVE SumSeq(_)
SumSeq(s) == IF s = <<>> THEN 0 ELSE Head(s) + SumSeq(Tail(s))

ZeroBits(bm) == Cardinality({i \in DOMAIN bm : bm[i] = 0})

Range(s) == {s[i] : i \in DOMAIN s}

\* slice.sort(): ascending insertion sort
RECURSIVE InsertSorted(_, _)
InsertSorted(x, s) ==
    IF s = <<>> THEN <<x>>
    ELSE IF x <= Head(s) THEN <<x>> \o s
    ELSE <<Head(s)>> \o InsertSorted(x, Tail(s))

RECURSIVE Sort(_)
Sort(s) == IF s = <<>> THEN <<>> ELSE InsertSorted(Head(s), Sort(Tail(s)))

IsPanic(r) ==
    r \in {"panic:assert", "panic:index", "panic:overflow", "panic:todo",
           "panic:unreachable", "panic:explicit", "panic:unwrap", "panic:stack"}

panicked == IsPanic(call.result)

-----------------------------------------------------------------------------
(* Block-group descriptor: blockgroup.rs.                                  *)

AllocResult(bm, cnt, vec, p) == [bm |-> bm, cnt |-> cnt, vec |-> vec, panic |-> p]

\* The scan of alloc_blocks from position i on, i = pos * UNIT_WIDTH + inner_pos:
\* words in ascending order, zero bits of a word from the lowest up
\* (trailing_zeros of the negated word).  The bit is set and the counter
\* decremented before the length of vec is compared with num.
RECURSIVE AllocBlocksScan(_, _, _, _, _, _)
AllocBlocksScan(bm, cnt, vec, i, num, checks) ==
    IF i >= BitmapWords * UNIT_WIDTH
    THEN AllocResult(bm, cnt, vec, "none")
    ELSE LET pos == i \div UNIT_WIDTH
             inner_pos == i % UNIT_WIDTH
             k == pos * UNIT_WIDTH + inner_pos
         IN  IF bm[k] = 1
             THEN AllocBlocksScan(bm, cnt, vec, i + 1, num, checks)
             ELSE LET bm2 == [bm EXCEPT ![k] = 1]
                      vec2 == Append(vec, k)
                  IN  IF cnt = 0 /\ checks
                      THEN AllocResult(bm2, cnt, vec, "panic:overflow")
                      ELSE IF Len(vec2) = num
                           THEN AllocResult(bm2, (cnt - 1) % U16, vec2, "none")
                           ELSE AllocBlocksScan(bm2, (cnt - 1) % U16, vec2, i + 1, num, checks)

\* Ext2BlockGroupDesc::alloc_blocks(num) on a group with bitmap bm and
\* free_blocks_count cnt
alloc_blocks(bm, cnt, num, checks) == AllocBlocksScan(bm, cnt, <<>>, 0, num, checks)

\* Ext2BlockGroupDesc::decomposition(bid): (pos, inner_pos)
decomposition(bid) ==
    LET inner_bid == bid % BLOCK_BITS
    IN  <<inner_bid \div UNIT_WIDTH, inner_bid % UNIT_WIDTH>>

\* the loop of dealloc_blocks without its assertion: the bit is cleared
\* whatever it was
RECURSIVE DeallocBlocksUnasserted(_, _, _)
DeallocBlocksUnasserted(bm, cnt, blocks) ==
    IF blocks = <<>>
    THEN AllocResult(bm, cnt, <<>>, "none")
    ELSE LET d == decomposition(Head(blocks))
             k == d[1] * UNIT_WIDTH + d[2]
         IN  IF d[1] >= BitmapWords
             THEN AllocResult(bm, cnt, <<>>, "panic:index")
             ELSE DeallocBlocksUnasserted([bm EXCEPT ![k] = 0], cnt, Tail(blocks))

\* The loop of dealloc_blocks over blocks: index the view (bounds-checked),
\* assert the bit is set, clear it.
RECURSIVE DeallocBlocksLoop(_, _, _)
DeallocBlocksLoop(bm, cnt, blocks) ==
    IF blocks = <<>>
    THEN AllocResult(bm, cnt, <<>>, "none")
    ELSE LET d == decomposition(Head(blocks))
             pos == d[1]
             inner_pos == d[2]
             k == pos * UNIT_WIDTH + inner_pos
         IN  IF pos >= BitmapWords
             THEN AllocResult(bm, cnt, <<>>, "panic:index")
             ELSE IF bm[k] = 0
                  THEN AllocResult(bm, cnt, <<>>, "panic:assert")
                  ELSE DeallocBlocksLoop([bm EXCEPT ![k] = 0], cnt, Tail(blocks))

\* dealloc_blocks with the counter raised by one, whatever the number of blocks
dealloc_blocks_count_one(bm, cnt, blocks, checks) ==
    IF blocks = <<>>
    THEN AllocResult(bm, cnt, <<>>, "none")
    ELSE DeallocBlocksLoop(bm, (cnt + 1) % U16, blocks)

\* Ext2BlockGroupDesc::dealloc_blocks(blocks): the counter is raised by
\* blocks.len() before the bits are looked at
dealloc_blocks(bm, cnt, blocks, checks) ==
    IF blocks = <<>>
    THEN AllocResult(bm, cnt, <<>>, "none")
    ELSE IF cnt + Len(blocks) >= U16 /\ checks
         THEN AllocResult(bm, cnt, <<>>, "panic:overflow")
         ELSE DeallocBlocksLoop(bm, (cnt + Len(blocks)) % U16, blocks)

\* Ext2BlockGroupDesc::alloc_inode(is_dir): todo!()
bg_alloc_inode(desc, ibm, is_dir) == [desc |-> desc, ibm |-> ibm, panic |-> "panic:todo"]

-----------------------------------------------------------------------------
(* Allocator: allocator.rs.                                                *)

\* free_blocks that forgets the reserved blocks
free_blocks_no_reserve(s, checks) == [v |-> s.free_blocks_count, panic |-> "none"]

\* Ext2Allocator::free_blocks(): sb.free_blocks_count - sb.r_blocks_count in u32
free_blocks(s, checks) ==
    IF s.free_blocks_count >= s.r_blocks_count
    THEN [v |-> s.free_blocks_count - s.r_blocks_count, panic |-> "none"]
    ELSE IF checks
         THEN [v |-> 0, panic |-> "panic:overflow"]
         ELSE [v |-> s.free_blocks_count - s.r_blocks_count + WRAP, panic |-> "none"]

\* Ext2Allocator::free_inodes()
free_inodes(s) == s.free_inodes_count

Outcome(result, ret, s, b, bbm, ibm) ==
    [result |-> result, ret |-> ret, sb |-> s, bg |-> b, block_bitmap |-> bbm,
     inode_bitmap |-> ibm]

LoopResult(unmet, ret, b, bbm, p) ==
    [unmet |-> unmet, ret |-> ret, bg |-> b, block_bitmap |-> bbm, panic |-> p]

\* The loop of alloc_data over the groups from group g on (groups are 1..NumGroups
\* here, 0..len-1 in the source)
RECURSIVE AllocDataLoop(_, _, _, _, _, _)
AllocDataLoop(g, unmet, ret, b, bbm, checks) ==
    IF g > NumGroups
    THEN LoopResult(unmet, ret, b, bbm, "none")
    ELSE LET a == alloc_blocks(bbm[g], b[g].free_blocks_count, unmet, checks)
             b2 == [b EXCEPT ![g].free_blocks_count = a.cnt]
             bbm2 == [bbm EXCEPT ![g] = a.bm]
         IN  IF a.panic # "none"
             THEN LoopResult(unmet, ret, b2, bbm2, a.panic)
             ELSE IF Len(a.vec) > unmet /\ checks
                  THEN LoopResult(unmet, ret, b2, bbm2, "panic:overflow")
                  ELSE LET unmet2 == (unmet - Len(a.vec)) % WRAP
                           ret2 == ret \o a.vec
                       IN  IF unmet2 = 0
                           THEN LoopResult(unmet2, ret2, b2, bbm2, "none")
                           ELSE AllocDataLoop(g + 1, unmet2, ret2, b2, bbm2, checks)

\* alloc_data without the admission check
alloc_data_no_admission(needed, s, b, bbm, ibm, checks) ==
    LET l == AllocDataLoop(1, needed, <<>>, b, bbm, checks)
        s2 == [s EXCEPT !.free_blocks_count = (s.free_blocks_count - needed) % WRAP]
    IN  IF l.panic # "none"
        THEN Outcome(l.panic, <<>>, s, l.bg, l.block_bitmap, ibm)
        ELSE IF l.unmet # 0
        THEN Outcome("panic:assert", <<>>, s2, l.bg, l.block_bitmap, ibm)
        ELSE Outcome("ok", l.ret, s2, l.bg, l.block_bitmap, ibm)

\* Ext2Allocator::alloc_data(needed)
alloc_data(needed, s, b, bbm, ibm, checks) ==
    LET fb == free_blocks(s, checks)
    IN  IF fb.panic # "none"
        THEN Outcome(fb.panic, <<>>, s, b, bbm, ibm)
        ELSE IF needed > fb.v
        THEN Outcome("NoFreeBlocks", <<>>, s, b, bbm, ibm)
        ELSE LET l == AllocDataLoop(1, needed, <<>>, b, bbm, checks)
             IN  IF l.panic # "none"
                 THEN Outcome(l.panic, <<>>, s, l.bg, l.block_bitmap, ibm)
                 ELSE IF needed > s.free_blocks_count /\ checks
                 THEN Outcome("panic:overflow", <<>>, s, l.bg, l.block_bitmap, ibm)
                 ELSE LET s2 == [s EXCEPT !.free_blocks_count =
                                     (s.free_blocks_count - needed) % WRAP]
                      IN  IF l.unmet # 0
                          THEN Outcome("panic:assert", <<>>, s2, l.bg, l.block_bitmap, ibm)
                          ELSE Outcome("ok", l.ret, s2, l.bg, l.block_bitmap, ibm)

\* the group index of dealloc_data for a block id (0-based)
bg_idx(id) == id \div blocks_per_group

\* slots[idx] of dealloc_data for the 0-based group idx
Slots(freed, idx) == Cardinality({i \in DOMAIN freed : bg_idx(freed[i]) = idx})

\* The second loop of dealloc_data: group g is given freed[offset..offset+slots[g]]
RECURSIVE DeallocDataLoop(_, _, _, _, _, _)
DeallocDataLoop(g, offset, freed, b, bbm, checks) ==
    IF g > NumGroups
    THEN LoopResult(offset, <<>>, b, bbm, "none")
    ELSE LET n == Slots(freed, g - 1)
             d == dealloc_blocks(bbm[g], b[g].free_blocks_count,
                                 SubSeq(freed, offset + 1, offset + n), checks)
             b2 == [b EXCEPT ![g].free_blocks_count = d.cnt]
             bbm2 == [bbm EXCEPT ![g] = d.bm]
         IN  IF d.panic # "none"
             THEN LoopResult(offset, <<>>, b2, bbm2, d.panic)
             ELSE DeallocDataLoop(g + 1, offset + n, freed, b2, bbm2, checks)

\* dealloc_data that leaves the superblock counter alone
dealloc_data_no_inc(freed_in, s, b, bbm, ibm, checks) ==
    LET freed == Sort(freed_in)
    IN  IF \E i \in DOMAIN freed : bg_idx(freed[i]) >= NumGroups
        THEN Outcome("panic:index", <<>>, s, b, bbm, ibm)
        ELSE LET l == DeallocDataLoop(1, 0, freed, b, bbm, checks)
             IN  IF l.panic # "none"
                 THEN Outcome(l.panic, <<>>, s, l.bg, l.block_bitmap, ibm)
                 ELSE Outcome("ok", <<>>, s, l.bg, l.block_bitmap, ibm)

\* Ext2Allocator::dealloc_data(freed)
dealloc_data(freed_in, s, b, bbm, ibm, checks) ==
    LET freed == Sort(freed_in)
    IN  IF \E i \in DOMAIN freed : bg_idx(freed[i]) >= NumGroups
        THEN Outcome("panic:index", <<>>, s, b, bbm, ibm)
        ELSE LET l == DeallocDataLoop(1, 0, freed, b, bbm, checks)
             IN  IF l.panic # "none"
                 THEN Outcome(l.panic, <<>>, s, l.bg, l.block_bitmap, ibm)
                 ELSE LET s2 == [s EXCEPT !.free_blocks_count =
                                     (s.free_blocks_count + Len(freed)) % WRAP]
                      IN  IF l.unmet # Len(freed)
                          THEN Outcome("panic:assert", <<>>, s2, l.bg, l.block_bitmap, ibm)
                          ELSE Outcome("ok", <<>>, s2, l.bg, l.block_bitmap, ibm)

\* the groups alloc_inode does not skip: those with free_blocks_count # 0
InodeCandidates(b) == {g \in Groups : b[g].free_blocks_count # 0}

\* alloc_inode that takes the inode off the superblock counter before it looks at it
alloc_inode_dec_first(is_dir, s, b, bbm, ibm, checks) ==
    LET s2 == [s EXCEPT !.free_inodes_count = (s.free_inodes_count - 1) % WRAP]
    IN  IF free_inodes(s) = 0
        THEN Outcome("NoFreeInodes", <<>>, s2, b, bbm, ibm)
        ELSE Outcome("panic:todo", <<>>, s2, b, bbm, ibm)

\* Ext2Allocator::alloc_inode(is_dir)
alloc_inode(is_dir, s, b, bbm, ibm, checks) ==
    IF free_inodes(s) = 0
    THEN Outcome("NoFreeInodes", <<>>, s, b, bbm, ibm)
    ELSE LET s2 == [s EXCEPT !.free_inodes_count = s.free_inodes_count - 1]
         IN  IF InodeCandidates(b) = {}
             THEN Outcome("panic:unreachable", <<>>, s2, b, bbm, ibm)
             ELSE LET g == CHOOSE x \in InodeCandidates(b) :
                               \A y \in InodeCandidates(b) : x <= y
                      a == bg_alloc_inode(b[g], ibm[g], is_dir)
                  IN  Outcome(a.panic, <<>>, s2, [b EXCEPT ![g] = a.desc],
                              bbm, [ibm EXCEPT ![g] = a.ibm])

-----------------------------------------------------------------------------
(* On-disk inode: disk_inode.rs.  A pointer takes PTR_SIZE bytes of a      *)
(* block (4 in the source, scaled), DIRECT_COUNT is 12 in the source.      *)

\* disk_inode.rs: the 4 of INDIRECT_COUNT = block::SIZE / 4 (scaled)
PTR_SIZE == 2
\* disk_inode.rs: Ext2Inode::DIRECT_COUNT = 12 (scaled)
DIRECT_COUNT == 2
INDIRECT_COUNT == BLOCK_SIZE \div PTR_SIZE
INDIRECT_BOUND == DIRECT_COUNT + INDIRECT_COUNT
DOUBLE_COUNT == INDIRECT_COUNT * INDIRECT_COUNT
DOUBLE_BOUND == INDIRECT_BOUND + DOUBLE_COUNT

Min(a, b) == IF a <= b THEN a ELSE b

\* Ext2Inode::size(): size_low, after the assertion that a regular file has
\* size_high = 0
size(inode) ==
    IF inode.filetype = "RegularFile" /\ inode.size_high # 0
    THEN [v |-> 0, panic |-> "panic:assert"]
    ELSE [v |-> inode.size_low, panic |-> "none"]

\* Ext2Inode::block_nth(inner_idx): the block id of file block inner_idx.
\* Slots of the arrays are 0-based in the source, 1-based here.
block_nth(inode, d, inner_idx) ==
    IF inner_idx < DIRECT_COUNT
    THEN [v |-> inode.direct_pointer[inner_idx + 1], panic |-> "none"]
    ELSE IF inner_idx < INDIRECT_BOUND
    THEN [v |-> d[inode.indirect_pointer][inner_idx - DIRECT_COUNT + 1], panic |-> "none"]
    ELSE IF inner_idx < DOUBLE_BOUND
    THEN LET last == inner_idx - INDIRECT_BOUND
             indirect == d[inode.doubly_indirect][(last \div INDIRECT_COUNT) + 1]
         IN  [v |-> d[indirect][(last % INDIRECT_COUNT) + 1], panic |-> "none"]
    ELSE [v |-> 0, panic |-> "panic:explicit"]

ReadResult(ret, buf, p) == [ret |-> ret, buf |-> buf, panic |-> p]

\* buf[at..at+Len(src)) = src, positions 0-based
CopyInto(buf, at, src) ==
    [i \in 1..Len(buf) |->
        IF i > at /\ i <= at + Len(src) THEN src[i - at] ELSE buf[i]]

\* The loop of read_at: one pass per block of [start, end)
RECURSIVE ReadLoop(_, _, _, _, _, _, _)
ReadLoop(inode, d, start, start_block, read_size, buf, end) ==
    LET end_current_block == Min((start \div BLOCK_SIZE + 1) * BLOCK_SIZE, end)
        block_read_size == end_current_block - start
        nth == block_nth(inode, d, start_block)
    IN  IF nth.panic # "none"
        THEN ReadResult(read_size, buf, nth.panic)
        ELSE LET from == start % BLOCK_SIZE
                 src == SubSeq(d[nth.v], from + 1, from + block_read_size)
                 buf2 == CopyInto(buf, read_size, src)
                 read_size2 == read_size + block_read_size
             IN  IF end_current_block = end
                 THEN ReadResult(read_size2, buf2, "none")
                 ELSE ReadLoop(inode, d, end_current_block, start_block + 1,
                               read_size2, buf2, end)

\* read_at that does not clip the end of the read to the size of the file
read_at_no_clip(inode, d, offset, buf) ==
    LET end == offset + Len(buf)
    IN  IF offset >= end
        THEN ReadResult(0, buf, "none")
        ELSE ReadLoop(inode, d, offset, offset \div BLOCK_SIZE, 0, buf, end)

\* Ext2Inode::read_at(offset, buf): the bytes returned and buf afterwards
read_at(inode, d, offset, buf) ==
    LET sz == size(inode)
    IN  IF sz.panic # "none"
        THEN ReadResult(0, buf, sz.panic)
        ELSE LET end == Min(offset + Len(buf), sz.v)
             IN  IF offset >= end
                 THEN ReadResult(0, buf, "none")
                 ELSE ReadLoop(inode, d, offset, offset \div BLOCK_SIZE, 0, buf, end)

-----------------------------------------------------------------------------
(* Inode handle: inode.rs.                                                 *)

\* VfsInode for Inode::write_at(offset, buf): todo!()
write_at(inode, d, offset, buf) == [ret |-> 0, file |-> inode, disk |-> d, panic |-> "panic:todo"]

\* Inode::increase_to(new_size): starts with assert!(self.size() > new_size)
increase_to(inode, d, new_size) ==
    LET sz == size(inode)
    IN  IF sz.panic # "none"
        THEN [file |-> inode, disk |-> d, panic |-> sz.panic]
        ELSE IF ~(sz.v > new_size)
             THEN [file |-> inode, disk |-> d, panic |-> "panic:assert"]
             ELSE [file |-> inode, disk |-> d, panic |-> "panic:todo"]

\* Inode::decrease_to(new_size): starts with assert!(self.size() < new_size)
decrease_to(inode, d, new_size) ==
    LET sz == size(inode)
    IN  IF sz.panic # "none"
        THEN [file |-> inode, disk |-> d, panic |-> sz.panic]
        ELSE IF ~(sz.v < new_size)
             THEN [file |-> inode, disk |-> d, panic |-> "panic:assert"]
             ELSE [file |-> inode, disk |-> d, panic |-> "panic:todo"]

\* VfsInode for Inode::set_len(len)
set_len(inode, d, len) ==
    LET sz == size(inode)
    IN  IF sz.panic # "none"
        THEN [file |-> inode, disk |-> d, panic |-> sz.panic]
        ELSE IF sz.v < len THEN increase_to(inode, d, len)
        ELSE IF sz.v = len THEN [file |-> inode, disk |-> d, panic |-> "none"]
        ELSE decrease_to(inode, d, len)

-----------------------------------------------------------------------------
(* The images the allocator starts from, and its calls.                    *)

\* the bits of a bitmap block that the view of BitmapWords words covers
ViewBits == 0..(BitmapWords * UNIT_WIDTH - 1)

\* A block bitmap of an image: inside the view the first u blocks of the
\* group in use (its bitmaps and inode table come first) and the rest free;
\* behind the view every block free (t = 0) or every block in use (t = 1).
ImageBitmap(u, t) ==
    [i \in Bits |-> IF i \in ViewBits THEN (IF i < u THEN 1 ELSE 0) ELSE t]

\* the block bitmaps of the images: any u for each group, one t for the image
InitBlockBitmaps ==
    {[g \in Groups |-> ImageBitmap(u[g], t)] :
        u \in [Groups -> 0..Cardinality(ViewBits)], t \in {0, 1}}

\* Inode bitmaps of an image: every group full, or group 1 full and the
\* others with one free inode, or every group with one free inode.
InodeBits == 0..(inodes_per_group - 1)
FullInodes == [i \in InodeBits |-> 1]
OneFreeInode == [i \in InodeBits |-> IF i = inodes_per_group - 1 THEN 0 ELSE 1]
InitInodeBitmaps ==
    {[g \in Groups |-> FullInodes],
     [g \in Groups |-> IF g = 1 THEN FullInodes ELSE OneFreeInode],
     [g \in Groups |-> OneFreeInode]}

\* Ext2BlockGroupDesc::find: the descriptors of a consistent image
Descriptors(bbm, ibm) ==
    [g \in Groups |-> [free_blocks_count |-> ZeroBits(bbm[g]),
                       free_inodes_count |-> ZeroBits(ibm[g]),
                       dirs_count |-> 0]]

\* the superblock of a consistent image with r reserved blocks
Superblock(b, r) ==
    [free_blocks_count |-> SumSeq([g \in Groups |-> b[g].free_blocks_count]),
     r_blocks_count |-> r,
     free_inodes_count |-> SumSeq([g \in Groups |-> b[g].free_inodes_count])]

NoCall == [op |-> "none", needed |-> 0, freed |-> <<>>, is_dir |-> FALSE,
           result |-> "none", ret |-> <<>>]

Snapshot == [sb |-> sb, bg |-> bg, block_bitmap |-> block_bitmap,
             inode_bitmap |-> inode_bitmap]

\* Ext2FileSystem::open on a consistent image: the counters agree with the
\* bitmaps and free_blocks_count >= r_blocks_count
InitAlloc ==
    /\ block_bitmap \in InitBlockBitmaps
    /\ inode_bitmap \in InitInodeBitmaps
    /\ bg = Descriptors(block_bitmap, inode_bitmap)
    /\ \E r \in 0..MaxReserved :
          /\ sb = Superblock(bg, r)
          /\ sb.free_blocks_count >= r
    /\ call = NoCall
    /\ pre = Snapshot

\* an image with every block and inode in use, for the runs about files
AllocIdle ==
    /\ block_bitmap = [g \in Groups |-> [i \in Bits |-> 1]]
    /\ inode_bitmap = [g \in Groups |-> FullInodes]
    /\ bg = Descriptors(block_bitmap, inode_bitmap)
    /\ sb = Superblock(bg, 0)
    /\ call = NoCall
    /\ pre = Snapshot

Commit(c, o) ==
    /\ call' = [c EXCEPT !.result = o.result, !.ret = o.ret]
    /\ pre' = Snapshot
    /\ sb' = o.sb
    /\ bg' = o.bg
    /\ block_bitmap' = o.block_bitmap
    /\ inode_bitmap' = o.inode_bitmap

Builds == BOOLEAN

AllocData ==
    /\ call.op = "none"
    /\ \E needed \in 0..MaxNeeded, checks \in Builds :
          Commit([NoCall EXCEPT !.op = "alloc_data", !.needed = needed],
                 alloc_data(needed, sb, bg, block_bitmap, inode_bitmap, checks))
    /\ UNCHANGED fileVars
    /\ UNCHANGED dirVars
    /\ UNCHANGED extVars

\* the local indices dealloc_data is tried on: the first bit of word 0, the
\* second bit of word 1, and a bit behind the view
FreedLocal == {0, UNIT_WIDTH + 1, BitmapWords * UNIT_WIDTH + 1}

\* block ids: those local indices in group 0, the second of them in the last
\* group, and the first id behind the last group
FreedIds ==
    FreedLocal \cup {(NumGroups - 1) * blocks_per_group + UNIT_WIDTH + 1}
        \cup {NumGroups * blocks_per_group}

FreedLists == UNION {[1..k -> FreedIds] : k \in 0..MaxFreed}

DeallocData ==
    /\ call.op = "none"
    /\ \E freed \in FreedLists, checks \in Builds :
          Commit([NoCall EXCEPT !.op = "dealloc_data", !.freed = freed],
                 dealloc_data(freed, sb, bg, block_bitmap, inode_bitmap, checks))
    /\ UNCHANGED fileVars
    /\ UNCHANGED dirVars
    /\ UNCHANGED extVars

\* dealloc_data of the list the last alloc_data returned, before any other
\* call; pre stays the state the alloc_data started in
DeallocReturned ==
    /\ call.op = "alloc_data"
    /\ call.result = "ok"
    /\ \E checks \in Builds :
          LET o == dealloc_data(call.ret, sb, bg, block_bitmap, inode_bitmap, checks)
          IN  /\ call' = [NoCall EXCEPT !.op = "dealloc_returned", !.needed = call.needed,
                                         !.freed = call.ret, !.result = o.result]
              /\ sb' = o.sb
              /\ bg' = o.bg
              /\ block_bitmap' = o.block_bitmap
              /\ inode_bitmap' = o.inode_bitmap
    /\ UNCHANGED pre
    /\ UNCHANGED fileVars
    /\ UNCHANGED dirVars
    /\ UNCHANGED extVars

AllocInode ==
    /\ call.op = "none"
    /\ \E is_dir \in BOOLEAN, checks \in Builds :
          Commit([NoCall EXCEPT !.op = "alloc_inode", !.is_dir = is_dir],
                 alloc_inode(is_dir, sb, bg, block_bitmap, inode_bitmap, checks))
    /\ UNCHANGED fileVars
    /\ UNCHANGED dirVars
    /\ UNCHANGED extVars

\* the caller takes the result of a call that returned and goes on
Return ==
    /\ call.op # "none"
    /\ ~panicked
    /\ call' = NoCall
    /\ pre' = Snapshot
    /\ UNCHANGED <<sb, bg, block_bitmap, inode_bitmap>>
    /\ UNCHANGED fileVars
    /\ UNCHANGED dirVars
    /\ UNCHANGED extVars

-----------------------------------------------------------------------------
(* The file images, and the calls on an open file.                         *)

\* bounds of the inputs
MaxSize == 26
MaxOffset == 27
MaxLen == 6
MaxChunk == 5
MaxBlockIdx == 16

\* where the image keeps the file: the pointer blocks, then the data blocks
FirstPtrBid == 2
IndirectBid == FirstPtrBid
DoubleBid == FirstPtrBid + 1
InnerBid(k) == FirstPtrBid + 2 + k
FirstDataBid == FirstPtrBid + 2 + INDIRECT_COUNT
DataBid(n, layout) ==
    IF layout = 1 THEN FirstDataBid + n ELSE FirstDataBid + (DOUBLE_BOUND - 1 - n)
DiskBids == 0..(FirstDataBid + DOUBLE_BOUND - 1)

\* the byte the image holds at file offset k
ImageByte(k) == 100 + k

BlocksOf(sz) == (sz + BLOCK_SIZE - 1) \div BLOCK_SIZE

\* the pointer to file block n of a file of nb blocks (0: none)
Ptr(n, nb, layout) == IF n < nb THEN DataBid(n, layout) ELSE 0

\* the inode of a regular file of sz bytes
FileInode(sz, layout) ==
    LET nb == BlocksOf(sz)
    IN  [filetype |-> "RegularFile",
         size_low |-> sz,
         size_high |-> 0,
         direct_pointer |-> [i \in 1..DIRECT_COUNT |-> Ptr(i - 1, nb, layout)],
         indirect_pointer |-> IF nb > DIRECT_COUNT THEN IndirectBid ELSE 0,
         doubly_indirect |-> IF nb > INDIRECT_BOUND THEN DoubleBid ELSE 0,
         triply_indirect |-> 0]

\* the device under that inode: block id -> BLOCK_SIZE bytes, or
\* INDIRECT_COUNT pointers
FileDisk(sz, layout) ==
    LET nb == BlocksOf(sz)
    IN  [b \in DiskBids |->
            IF b = IndirectBid /\ nb > DIRECT_COUNT
            THEN [i \in 1..INDIRECT_COUNT |-> Ptr(DIRECT_COUNT + i - 1, nb, layout)]
            ELSE IF b = DoubleBid /\ nb > INDIRECT_BOUND
            THEN [i \in 1..INDIRECT_COUNT |->
                    IF nb > INDIRECT_BOUND + (i - 1) * INDIRECT_COUNT
                    THEN InnerBid(i - 1) ELSE 0]
            ELSE IF \E k \in 0..(INDIRECT_COUNT - 1) :
                        /\ b = InnerBid(k)
                        /\ nb > INDIRECT_BOUND + k * INDIRECT_COUNT
            THEN LET k == b - InnerBid(0)
                 IN  [i \in 1..INDIRECT_COUNT |->
                        Ptr(INDIRECT_BOUND + k * INDIRECT_COUNT + i - 1, nb, layout)]
            ELSE IF \E n \in 0..(nb - 1) : b = DataBid(n, layout)
            THEN LET n == CHOOSE m \in 0..(nb - 1) : b = DataBid(m, layout)
                 IN  [j \in 1..BLOCK_SIZE |-> ImageByte(n * BLOCK_SIZE + j - 1)]
            ELSE [j \in 1..BLOCK_SIZE |-> 0]]

NoRd == [op |-> "none", offset |-> 0, data |-> <<>>, len |-> 0, inner_idx |-> 0,
         result |-> "none", ret |-> 0, buf |-> <<>>]

NoReader == [active |-> FALSE, chunk |-> 0, offset |-> 0, acc |-> <<>>,
             steps |-> 0, done |-> FALSE]

filePanicked == IsPanic(rd.result)

\* open_file on an image that holds a regular file of any size up to
\* MaxSize, its blocks in ascending or in descending order on the device
InitFile ==
    /\ \E sz \in 0..MaxSize, layout \in {1, 2} :
          /\ file = FileInode(sz, layout)
          /\ disk = FileDisk(sz, layout)
    /\ rd = NoRd
    /\ reader = NoReader

\* no file is open in the runs about the allocator
FileIdle ==
    /\ file = FileInode(0, 1)
    /\ disk = <<>>
    /\ rd = NoRd
    /\ reader = NoReader

ZeroBuf(n) == [i \in 1..n |-> 0]

\* VfsInode::read_at(offset, buf) with a buffer of len zero bytes
ReadAt ==
    /\ rd.op = "none"
    /\ ~reader.active
    /\ \E offset \in 0..MaxOffset, len \in 0..MaxLen :
          LET r == read_at(file, disk, offset, ZeroBuf(len))
          IN  rd' = [NoRd EXCEPT !.op = "read_at", !.offset = offset, !.len = len,
                                 !.result = IF r.panic = "none" THEN "ok" ELSE r.panic,
                                 !.ret = r.ret, !.buf = r.buf]
    /\ UNCHANGED <<file, disk, reader>>
    /\ UNCHANGED allocVars
    /\ UNCHANGED dirVars
    /\ UNCHANGED extVars

WriteData == {<<>>, <<7>>, <<7, 8, 9, 7, 8>>}

\* VfsInode::write_at(offset, buf)
WriteAt ==
    /\ rd.op = "none"
    /\ ~reader.active
    /\ \E offset \in 0..MaxOffset, data \in WriteData :
          LET w == write_at(file, disk, offset, data)
          IN  /\ rd' = [NoRd EXCEPT !.op = "write_at", !.offset = offset,
                                    !.data = data, !.len = Len(data),
                                    !.result = IF w.panic = "none" THEN "ok" ELSE w.panic,
                                    !.ret = w.ret]
              /\ file' = w.file
              /\ disk' = w.disk
    /\ UNCHANGED reader
    /\ UNCHANGED allocVars
    /\ UNCHANGED dirVars
    /\ UNCHANGED extVars

\* VfsInode::set_len(len)
SetLen ==
    /\ rd.op = "none"
    /\ ~reader.active
    /\ \E len \in 0..MaxSize :
          LET w == set_len(file, disk, len)
          IN  /\ rd' = [NoRd EXCEPT !.op = "set_len", !.len = len,
                                    !.result = IF w.panic = "none" THEN "ok" ELSE w.panic]
              /\ file' = w.file
              /\ disk' = w.disk
    /\ UNCHANGED reader
    /\ UNCHANGED allocVars
    /\ UNCHANGED dirVars
    /\ UNCHANGED extVars

\* Ext2Inode::block_nth(inner_idx) on the inode of the open file
BlockNth ==
    /\ rd.op = "none"
    /\ ~reader.active
    /\ \E inner_idx \in 0..MaxBlockIdx :
          LET r == block_nth(file, disk, inner_idx)
          IN  rd' = [NoRd EXCEPT !.op = "block_nth", !.inner_idx = inner_idx,
                                 !.result = IF r.panic = "none" THEN "ok" ELSE r.panic,
                                 !.ret = r.v]
    /\ UNCHANGED <<file, disk, reader>>
    /\ UNCHANGED allocVars
    /\ UNCHANGED dirVars
    /\ UNCHANGED extVars

\* the caller takes the result of a call that returned and goes on
FileReturn ==
    /\ rd.op # "none"
    /\ ~reader.active
    /\ ~filePanicked
    /\ rd' = NoRd
    /\ UNCHANGED <<file, disk, reader>>
    /\ UNCHANGED allocVars
    /\ UNCHANGED dirVars
    /\ UNCHANGED extVars

\* test_rw: offset = 0, read_str empty, a read buffer of chunk bytes
ReaderStart ==
    /\ rd.op = "none"
    /\ ~reader.active
    /\ \E chunk \in 1..MaxChunk :
          reader' = [NoReader EXCEPT !.active = TRUE, !.chunk = chunk]
    /\ UNCHANGED <<file, disk, rd>>
    /\ UNCHANGED allocVars
    /\ UNCHANGED dirVars
    /\ UNCHANGED extVars

\* test_rw: one pass of the loop: read_at(offset, read_buffer); break on 0,
\* else offset += len and read_buffer[..len] is appended
ReaderStep ==
    /\ reader.active
    /\ ~reader.done
    /\ ~filePanicked
    /\ LET r == read_at(file, disk, reader.offset, ZeroBuf(reader.chunk))
       IN  /\ rd' = [NoRd EXCEPT !.op = "read_at", !.offset = reader.offset,
                                 !.len = reader.chunk,
                                 !.result = IF r.panic = "none" THEN "ok" ELSE r.panic,
                                 !.ret = r.ret, !.buf = r.buf]
           /\ reader' = IF r.panic # "none"
                        THEN reader
                        ELSE IF r.ret = 0
                        THEN [reader EXCEPT !.done = TRUE, !.steps = @ + 1]
                        ELSE [reader EXCEPT !.offset = @ + r.ret,
                                            !.acc = @ \o SubSeq(r.buf, 1, r.ret),
                                            !.steps = @ + 1]
    /\ UNCHANGED <<file, disk>>
    /\ UNCHANGED allocVars
    /\ UNCHANGED dirVars
    /\ UNCHANGED extVars

\* the closure of test_rw returns; the next pass starts a new loop
ReaderEnd ==
    /\ reader.done
    /\ reader' = NoReader
    /\ rd' = NoRd
    /\ UNCHANGED <<file, disk>>
    /\ UNCHANGED allocVars
    /\ UNCHANGED dirVars
    /\ UNCHANGED extVars

-----------------------------------------------------------------------------
(* Paths: vfs/path.rs.  A string is a sequence of characters, a name a     *)
(* sequence of characters other than "/".                                  *)

\* the pieces of str.split('/') that are not empty, in order
RECURSIVE SplitPath(_, _, _)
SplitPath(str, piece, acc) ==
    IF str = <<>>
    THEN IF piece = <<>> THEN acc ELSE Append(acc, piece)
    ELSE IF Head(str) = "/"
         THEN SplitPath(Tail(str), <<>>, IF piece = <<>> THEN acc ELSE Append(acc, piece))
         ELSE SplitPath(Tail(str), Append(piece, Head(str)), acc)

\* impl From<&str> for VfsPath
VfsPathFrom(str) ==
    [from_root |-> (str # <<>> /\ Head(str) = "/"),
     inner |-> SplitPath(str, <<>>, <<>>)]

\* VfsPath::parent(): the path without its last component
parent(path) ==
    [from_root |-> path.from_root,
     inner |-> IF path.inner = <<>> THEN <<>>
               ELSE SubSeq(path.inner, 1, Len(path.inner) - 1)]

-----------------------------------------------------------------------------
(* Inode handles and the path walker: layout.rs, inode.rs, symlink.rs,     *)
(* dir.rs.  A handle is (inode_id, filetype, parent_id); parent_id = 0     *)
(* stands for None (inode ids start at 1).                                 *)

\* symlink.rs: assert!(symlink_len <= 60)
SYMLINK_INLINE == 60
\* the id of the root directory
ROOT_ID == 2

InodeIds == 1..(NumGroups * inodes_per_group)

Handle(inode_id, filetype, parent_id) ==
    [inode_id |-> inode_id, filetype |-> filetype, parent_id |-> parent_id]

NoHandle == Handle(0, "None", 0)

Got(result, inode) == [result |-> result, inode |-> inode]

\* Ext2Layout::inode_nth(inode_id) with Ext2Layout::inode_idx and Inode::new:
\* the group is looked up with get(..).unwrap(), the filetype is read from the
\* inode (TypePerm::filetype is unreachable!() for a type it does not know)
inode_nth(t, inode_id, checks) ==
    IF inode_id = 0
    THEN Got(IF checks THEN "panic:overflow" ELSE "panic:unwrap", NoHandle)
    ELSE LET inode_seq == inode_id - 1
             blockgroup_idx == inode_seq \div inodes_per_group
         IN  IF blockgroup_idx >= NumGroups
             THEN Got("panic:unwrap", NoHandle)
             ELSE IF t[inode_id].filetype = "None"
             THEN Got("panic:unreachable", NoHandle)
             ELSE Got("ok", Handle(inode_id, t[inode_id].filetype, 0))

with_parent(h, parent_id) == [h EXCEPT !.parent_id = parent_id]

\* Ext2Layout::root_inode: inode_nth(2).with_parent(2)
root_inode(t, checks) ==
    LET r == inode_nth(t, ROOT_ID, checks)
    IN  IF r.result # "ok" THEN r ELSE Got("ok", with_parent(r.inode, ROOT_ID))

is_file(h) == h.filetype = "RegularFile"
is_dir(h) == h.filetype = "Directory"
is_symlink(h) == h.filetype = "SymbolicLink"

\* Inode::parent_inode: inode_nth(self.parent_id.unwrap())
parent_inode(t, h, checks) ==
    IF h.parent_id = 0 THEN Got("panic:unwrap", NoHandle)
    ELSE inode_nth(t, h.parent_id, checks)

\* Inode::symlink_target with Inode::read_symlink: the target kept in the
\* inode, parsed as a path
symlink_target(t, h) ==
    IF ~is_symlink(h)
    THEN [result |-> "NotASymlink", path |-> VfsPathFrom(<<>>)]
    ELSE IF Len(t[h.inode_id].target) > SYMLINK_INLINE
    THEN [result |-> "panic:assert", path |-> VfsPathFrom(<<>>)]
    ELSE [result |-> "ok", path |-> VfsPathFrom(t[h.inode_id].target)]

\* Dir::from_inode: the whole content of the directory, read with read_at
from_inode(t, inode_id) == t[inode_id].dir

\* Dir::entries over Dir::split: one DirEntry per record, in record order,
\* each with the id of the directory as its parent_id
entries(inode_id, buffer) ==
    [i \in DOMAIN buffer |->
        [inode_id |-> buffer[i].inode_id,
         parent_id |-> inode_id,
         name |-> SubSeq(buffer[i].name, 1, buffer[i].name_len)]]

\* Inode::inner_read_dir
inner_read_dir(t, h) == entries(h.inode_id, from_inode(t, h.inode_id))

\* Inode::find_single: the entry of that name; two of them panic
find_single(es, filename) ==
    LET found == {i \in DOMAIN es : es[i].name = filename}
    IN  IF Cardinality(found) > 1
        THEN [result |-> "panic:explicit", inode_id |-> 0, parent_id |-> 0]
        ELSE IF found = {} THEN [result |-> "none", inode_id |-> 0, parent_id |-> 0]
        ELSE LET chosen == es[CHOOSE i \in found : TRUE]
             IN  [result |-> "some", inode_id |-> chosen.inode_id,
                  parent_id |-> chosen.parent_id]

\* child_inode that gives the child the directory of its entry as its parent
child_inode_entry_parent(t, self, es, next, checks) ==
    LET chosen == find_single(es, next)
    IN  IF chosen.result = "panic:explicit" THEN Got("panic:explicit", NoHandle)
        ELSE IF chosen.result = "none" THEN Got("NotFound", NoHandle)
        ELSE LET c == inode_nth(t, chosen.inode_id, checks)
             IN  IF c.result # "ok" THEN c
                 ELSE Got("ok", with_parent(c.inode, chosen.parent_id))

\* Inode::child_inode: the child gets self, the inode the walk started from,
\* as its parent
child_inode(t, self, es, next, checks) ==
    LET chosen == find_single(es, next)
    IN  IF chosen.result = "panic:explicit" THEN Got("panic:explicit", NoHandle)
        ELSE IF chosen.result = "none" THEN Got("NotFound", NoHandle)
        ELSE LET c == inode_nth(t, chosen.inode_id, checks)
             IN  IF c.result # "ok" THEN c
                 ELSE Got("ok", with_parent(c.inode, self.inode_id))

\* The result of a walk: the inode reached, and for every symlink resolved on
\* the way the inode the walk of its target started from.
Walked(result, inode, steps) == [result |-> result, inode |-> inode, steps |-> steps]

Step(link, path, start) ==
    [link |-> link.inode_id, absolute |-> path.from_root, start |-> start.inode_id]

\* Inode::walk and the loop of Inode::goto_last from component i on.  active
\* holds the calls of walk that have not returned: a call with the arguments
\* of one of them repeats it without end, which ends in a stack overflow.
RECURSIVE walk(_, _, _, _, _, _)
RECURSIVE GotoLoop(_, _, _, _, _, _, _, _)

\* goto_last, the symlink branch: current_inode is replaced by what the walk
\* of its target reaches, from the root or from its parent
FollowCurrent(t, current_inode, par, tg, root, steps, active, checks) ==
    IF par.result # "ok" THEN Walked(par.result, NoHandle, steps)
    ELSE IF tg.result # "ok" THEN Walked(tg.result, NoHandle, steps)
    ELSE IF tg.path.from_root
    THEN IF root.result # "ok"
         THEN Walked(root.result, NoHandle, steps)
         ELSE walk(t, root.inode, tg.path,
                   Append(steps, Step(current_inode, tg.path, root.inode)),
                   active, checks)
    ELSE walk(t, par.inode, tg.path,
              Append(steps, Step(current_inode, tg.path, par.inode)),
              active, checks)

\* goto_last: the child named next of the directory reached
Descend(t, self, path, i, ch, steps, active, checks) ==
    IF ch.result # "ok" THEN Walked(ch.result, NoHandle, steps)
    ELSE GotoLoop(t, self, path, i + 1, ch.inode, steps, active, checks)

\* goto_last: one component, after a symlink was followed
GotoNext(t, self, path, i, cur, active, checks) ==
    IF cur.result # "ok" THEN cur
    ELSE IF ~is_dir(cur.inode)
    THEN Walked("NotADirectory", NoHandle, cur.steps)
    ELSE Descend(t, self, path, i,
                 child_inode(t, self, inner_read_dir(t, cur.inode), path.inner[i], checks),
                 cur.steps, active, checks)

GotoLoop(t, self, path, i, current_inode, steps, active, checks) ==
    IF i > Len(path.inner)
    THEN Walked("ok", current_inode, steps)
    ELSE IF ~is_symlink(current_inode)
    THEN GotoNext(t, self, path, i, Walked("ok", current_inode, steps), active, checks)
    ELSE GotoNext(t, self, path, i,
                  FollowCurrent(t, current_inode, parent_inode(t, current_inode, checks),
                                symlink_target(t, current_inode), root_inode(t, checks),
                                steps, active, checks),
                  active, checks)

\* walk: a last component that is a symlink is followed from its parent
FollowLast(t, last, parent_last, tg, active, checks) ==
    IF parent_last.result # "ok" THEN Walked(parent_last.result, NoHandle, last.steps)
    ELSE IF tg.result # "ok" THEN Walked(tg.result, NoHandle, last.steps)
    ELSE walk(t, parent_last.inode, tg.path,
              Append(last.steps, Step(last.inode, tg.path, parent_last.inode)),
              active, checks)

\* walk, after goto_last
WalkLast(t, last, active, checks) ==
    IF last.result # "ok" THEN last
    ELSE IF ~is_symlink(last.inode) THEN last
    ELSE FollowLast(t, last, parent_inode(t, last.inode, checks),
                    symlink_target(t, last.inode), active, checks)

walk(t, self, path, steps, active, checks) ==
    IF <<self, path>> \in active
    THEN Walked("panic:stack", NoHandle, steps)
    ELSE WalkLast(t, GotoLoop(t, self, path, 1, self, steps,
                              active \cup {<<self, path>>}, checks),
                  active \cup {<<self, path>>}, checks)

-----------------------------------------------------------------------------
(* Directory records: dir.rs.  The buffer of a Dir is the sequence of its  *)
(* records in stride order; the offset of a record is the sum of the       *)
(* record_len of the records before it.  Lengths are in bytes as in the    *)
(* source; name_len is a u8, scaled to U8 = MAX_FILE_NAME + 1 values.      *)

\* dir.rs: Ext2DirEntry::BARE_LEN
BARE_LEN == 8
\* dir.rs: the 4 of ceil!(.., 4) and of record_len % 4
REC_ALIGN == 4
\* dir.rs: Ext2DirEntry::MAX_FILE_NAME = u8::MAX (scaled)
MAX_FILE_NAME == 3
U8 == MAX_FILE_NAME + 1

\* util.rs: ceil!(index, bound)
ceil(index, bound) == ((index + bound - 1) \div bound) * bound

\* the filetype byte of a record
FiletypeCode(filetype) ==
    CASE filetype = "RegularFile" -> 1
      [] filetype = "Directory" -> 2
      [] filetype = "SymbolicLink" -> 7
      [] OTHER -> 0

\* Ext2DirEntry::build_raw
build_raw(filename, inode_id, filetype) ==
    LET name_len == Len(filename) % U8
    IN  [inode_id |-> inode_id,
         record_len |-> ceil(BARE_LEN + name_len, REC_ALIGN) % U16,
         name_len |-> name_len,
         filetype |-> FiletypeCode(filetype),
         name |-> filename]

\* Ext2DirEntry::regular_len
regular_len(entry) == ceil(BARE_LEN + entry.name_len, REC_ALIGN)

\* Ext2DirEntry::has_free(needed), with the assertion of record_len() and the
\* usize subtraction
has_free(entry, needed, checks) ==
    IF entry.record_len % REC_ALIGN # 0 THEN [v |-> FALSE, panic |-> "panic:assert"]
    ELSE IF entry.record_len < regular_len(entry)
    THEN IF checks THEN [v |-> FALSE, panic |-> "panic:overflow"]
                   ELSE [v |-> TRUE, panic |-> "none"]
    ELSE [v |-> (entry.record_len - regular_len(entry) >= needed), panic |-> "none"]

\* rec_narrow that leaves the record as long as it was
rec_narrow_keeps_len(entry) ==
    [entry |-> entry, new_len |-> regular_len(entry),
     freed |-> (entry.record_len - regular_len(entry)) % WRAP]

\* Ext2DirEntry::rec_narrow: (the record, its new length, the length freed)
rec_narrow(entry) ==
    [entry |-> [entry EXCEPT !.record_len = regular_len(entry) % U16],
     new_len |-> regular_len(entry) % U16,
     freed |-> (entry.record_len - (regular_len(entry) % U16)) % WRAP]

\* Ext2DirEntry::rec_expand(new_len)
rec_expand(entry, new_len) ==
    IF entry.record_len % REC_ALIGN # 0 \/ ~(entry.record_len <= new_len)
    THEN [entry |-> entry, panic |-> "panic:assert"]
    ELSE [entry |-> [entry EXCEPT !.record_len = new_len % U16], panic |-> "none"]

Inserted(buffer, p) == [buffer |-> buffer, panic |-> p]

\* The loop of Dir::insert_entry from record i on: the first record with
\* room is narrowed and the new record placed behind it (place_entry at
\* offset + new_len), with the length the narrowing freed.
RECURSIVE InsertScan(_, _, _, _)
InsertScan(buffer, i, new_entry, checks) ==
    IF i > Len(buffer) THEN Inserted(buffer, "none")
    ELSE LET hf == has_free(buffer[i], regular_len(new_entry), checks)
         IN  IF hf.panic # "none" THEN Inserted(buffer, hf.panic)
             ELSE IF ~hf.v THEN InsertScan(buffer, i + 1, new_entry, checks)
             ELSE LET n == rec_narrow(buffer[i])
                      e == rec_expand(new_entry, n.freed)
                  IN  IF e.panic # "none"
                      THEN Inserted([buffer EXCEPT ![i] = n.entry], e.panic)
                      ELSE Inserted(SubSeq(buffer, 1, i - 1) \o <<n.entry, e.entry>>
                                        \o SubSeq(buffer, i + 1, Len(buffer)),
                                    "none")

\* Dir::insert_entry(filename, inode_id, file_type)
dir_insert_entry(buffer, filename, inode_id, file_type, checks) ==
    InsertScan(buffer, 1, build_raw(filename, inode_id, file_type), checks)

\* Ext2Inode::write_at(0, buf) on a directory inode: the content becomes buf
Ext2Inode_write_at(inode, buf) == [inode EXCEPT !.dir = buf]

\* Dir::write_to_disk
write_to_disk(t, inode_id, buffer) ==
    [t EXCEPT ![inode_id] = Ext2Inode_write_at(t[inode_id], buffer)]

\* Ext2Inode::inc_hard_links
inc_hard_links(inode) == [inode EXCEPT !.hard_links = (inode.hard_links + 1) % U16]

\* Ext2Layout::new_inode_nth: a fresh inode of that type
new_inode_nth(t, inode_id, filetype) ==
    [t EXCEPT ![inode_id] =
        [filetype |-> filetype, hard_links |-> 1, dir |-> <<>>, target |-> <<>>]]

-----------------------------------------------------------------------------
(* Inserting names: dir.rs and filesystem.rs.  The state an operation of   *)
(* the file system works on is the inode table together with the counters  *)
(* and inode bitmaps of the allocator.                                     *)

FsState(t, s, b, ibm) == [inodes |-> t, sb |-> s, bg |-> b, inode_bitmap |-> ibm]

FsOut(result, ret, steps, state) ==
    [result |-> result, ret |-> ret, steps |-> steps, state |-> state]

\* Inode::check_valid_insert(path)
check_valid_insert(t, self, path) ==
    IF ~is_dir(self) THEN "NotADirectory"
    ELSE IF path.inner = <<>> THEN "InvalidPath"
    ELSE LET filename == path.inner[Len(path.inner)]
             chosen == find_single(inner_read_dir(t, self), filename)
         IN  IF chosen.result = "panic:explicit" THEN "panic:explicit"
             ELSE IF chosen.result = "some" THEN "AlreadyExists"
             ELSE IF Len(filename) > MAX_FILE_NAME THEN "TooLongFileName"
             ELSE "ok"

\* Inode::insert_hardlink_entry(filename, target_inode)
insert_hardlink_entry(st, self, filename, target_inode, checks) ==
    LET ins == dir_insert_entry(from_inode(st.inodes, self.inode_id), filename,
                                target_inode.inode_id, target_inode.filetype, checks)
        written == write_to_disk(st.inodes, self.inode_id, ins.buffer)
    IN  IF ins.panic # "none" THEN FsOut(ins.panic, 0, <<>>, st)
        ELSE FsOut("ok", 0, <<>>,
                   [st EXCEPT !.inodes =
                       [written EXCEPT ![target_inode.inode_id] = inc_hard_links(@)]])

\* insert_hardlink that does not look at the directory first
insert_hardlink_unchecked(st, self, path_from, path_to, target_inode, checks) ==
    IF path_from.inner = <<>> THEN FsOut("panic:unwrap", 0, <<>>, st)
    ELSE IF ~is_file(target_inode) THEN FsOut("NotAFile", 0, <<>>, st)
    ELSE insert_hardlink_entry(st, self, path_from.inner[Len(path_from.inner)],
                               target_inode, checks)

\* Inode::insert_hardlink(path_from, path_to, target_inode)
insert_hardlink(st, self, path_from, path_to, target_inode, checks) ==
    LET valid == check_valid_insert(st.inodes, self, path_from)
    IN  IF valid # "ok" THEN FsOut(valid, 0, <<>>, st)
        ELSE IF ~is_file(target_inode) THEN FsOut("NotAFile", 0, <<>>, st)
        ELSE insert_hardlink_entry(st, self, path_from.inner[Len(path_from.inner)],
                                   target_inode, checks)

\* the state after a call of the allocator from an operation of the file system
AfterAlloc(st, o) ==
    [st EXCEPT !.sb = o.sb, !.bg = o.bg, !.inode_bitmap = o.inode_bitmap]

\* Inode::insert_file_entry(filename): the inode is allocated first
insert_file_entry(st, bbm, self, filename, checks) ==
    LET o == alloc_inode(FALSE, st.sb, st.bg, bbm, st.inode_bitmap, checks)
        st2 == AfterAlloc(st, o)
    IN  IF o.result # "ok" THEN FsOut(o.result, 0, <<>>, st2)
        ELSE LET inode_id == Head(o.ret)
                 made == new_inode_nth(st2.inodes, inode_id, "RegularFile")
                 ins == dir_insert_entry(from_inode(made, self.inode_id), filename,
                                         inode_id, "RegularFile", checks)
             IN  IF ins.panic # "none"
                 THEN FsOut(ins.panic, 0, <<>>, [st2 EXCEPT !.inodes = made])
                 ELSE FsOut("ok", inode_id, <<>>,
                            [st2 EXCEPT !.inodes =
                                write_to_disk(made, self.inode_id, ins.buffer)])

\* Inode::insert_dir_entry(dirname): the inode is allocated, no entry is made
insert_dir_entry(st, bbm, self, dirname, checks) ==
    LET o == alloc_inode(TRUE, st.sb, st.bg, bbm, st.inode_bitmap, checks)
        st2 == AfterAlloc(st, o)
    IN  IF o.result # "ok" THEN FsOut(o.result, 0, <<>>, st2)
        ELSE LET made == inode_nth(st2.inodes, Head(o.ret), checks)
             IN  IF made.result # "ok" THEN FsOut(made.result, 0, <<>>, st2)
                 ELSE FsOut("ok", Head(o.ret), <<>>, st2)

\* Inode::insert_entry that does not look at the directory first
insert_entry_unchecked(st, bbm, self, path, filetype, checks) ==
    IF path.inner = <<>> THEN FsOut("panic:unwrap", 0, <<>>, st)
    ELSE LET filename == path.inner[Len(path.inner)]
         IN  CASE filetype = "RegularFile" ->
                      insert_file_entry(st, bbm, self, filename, checks)
               [] filetype = "Directory" ->
                      insert_dir_entry(st, bbm, self, filename, checks)
               [] OTHER -> FsOut("panic:todo", 0, <<>>, st)

\* Inode::insert_entry(path, filetype)
insert_entry(st, bbm, self, path, filetype, checks) ==
    LET valid == check_valid_insert(st.inodes, self, path)
    IN  IF valid # "ok" THEN FsOut(valid, 0, <<>>, st)
        ELSE LET filename == path.inner[Len(path.inner)]
             IN  CASE filetype = "RegularFile" ->
                          insert_file_entry(st, bbm, self, filename, checks)
                   [] filetype = "Directory" ->
                          insert_dir_entry(st, bbm, self, filename, checks)
                   [] OTHER -> FsOut("panic:todo", 0, <<>>, st)

\* Ext2FileSystem::exists(path): whether the walk from the root succeeds
exists(st, path, checks) ==
    LET root == root_inode(st.inodes, checks)
        target == walk(st.inodes, root.inode, path, <<>>, {}, checks)
    IN  IF root.result # "ok" THEN FsOut(root.result, FALSE, <<>>, st)
        ELSE IF IsPanic(target.result) THEN FsOut(target.result, FALSE, target.steps, st)
        ELSE FsOut("ok", target.result = "ok", target.steps, st)

\* Ext2FileSystem::open_file(path): the inode the walk from the root reaches
open_file(st, path, checks) ==
    LET root == root_inode(st.inodes, checks)
        target == walk(st.inodes, root.inode, path, <<>>, {}, checks)
    IN  IF root.result # "ok" THEN FsOut(root.result, 0, <<>>, st)
        ELSE FsOut(target.result, target.inode.inode_id, target.steps, st)

\* Ext2FileSystem::link(to, from)
link(st, to, from, checks) ==
    LET root == root_inode(st.inodes, checks)
        target == walk(st.inodes, root.inode, to, <<>>, {}, checks)
        dir_inode == walk(st.inodes, root.inode, parent(from), <<>>, {}, checks)
    IN  IF root.result # "ok" THEN FsOut(root.result, 0, <<>>, st)
        ELSE IF target.result # "ok" THEN FsOut(target.result, 0, <<>>, st)
        ELSE IF dir_inode.result # "ok" THEN FsOut(dir_inode.result, 0, <<>>, st)
        ELSE insert_hardlink(st, dir_inode.inode, from, to, target.inode, checks)

\* Ext2FileSystem::symlink(to, from): to need not exist
symlink(st, bbm, to, from, checks) ==
    LET root == root_inode(st.inodes, checks)
        dir_inode == walk(st.inodes, root.inode, parent(from), <<>>, {}, checks)
    IN  IF root.result # "ok" THEN FsOut(root.result, 0, <<>>, st)
        ELSE IF dir_inode.result # "ok" THEN FsOut(dir_inode.result, 0, <<>>, st)
        ELSE insert_entry(st, bbm, dir_inode.inode, from, "SymbolicLink", checks)

\* Inode::read_symlink: the size bytes at offset 40 of the inode record
read_symlink(t, h) ==
    IF Len(t[h.inode_id].target) > SYMLINK_INLINE
    THEN [result |-> "panic:assert", ret |-> <<>>]
    ELSE [result |-> "ok", ret |-> t[h.inode_id].target]

\* Ext2FileSystem::remove_file(path): todo!()
remove_file(st, path, checks) == FsOut("panic:todo", 0, <<>>, st)

\* Ext2FileSystem::create_file(path)
create_file(st, bbm, path, checks) ==
    LET root == root_inode(st.inodes, checks)
        dir_inode == walk(st.inodes, root.inode, parent(path), <<>>, {}, checks)
    IN  IF root.result # "ok" THEN FsOut(root.result, 0, <<>>, st)
        ELSE IF dir_inode.result # "ok" THEN FsOut(dir_inode.result, 0, <<>>, st)
        ELSE insert_entry(st, bbm, dir_inode.inode, path, "RegularFile", checks)

\* Inode::read_dir: the entries of a directory
inode_read_dir(t, h) ==
    IF ~is_dir(h) THEN [result |-> "NotADirectory", list |-> <<>>]
    ELSE [result |-> "ok", list |-> inner_read_dir(t, h)]

\* Ext2FileSystem::read_dir, after the walk
ReadDirOf(st, target) ==
    IF target.result # "ok" THEN FsOut(target.result, <<>>, target.steps, st)
    ELSE FsOut(inode_read_dir(st.inodes, target.inode).result,
               inode_read_dir(st.inodes, target.inode).list, target.steps, st)

\* Ext2FileSystem::read_dir(path)
read_dir(st, path, checks) ==
    LET root == root_inode(st.inodes, checks)
    IN  IF root.result # "ok" THEN FsOut(root.result, <<>>, <<>>, st)
        ELSE ReadDirOf(st, walk(st.inodes, root.inode, path, <<>>, {}, checks))

-----------------------------------------------------------------------------
(* The front of the file system: vfs/mod.rs.  A path comes as a string.    *)

\* VFS::parse_path that takes every string
parse_path_any(str) == [result |-> "ok", path |-> VfsPathFrom(str)]

\* VFS::parse_path
parse_path(str) ==
    IF ~(str # <<>> /\ Head(str) = "/")
    THEN [result |-> "InvalidPath", path |-> VfsPathFrom(<<>>)]
    ELSE [result |-> "ok", path |-> VfsPathFrom(str)]

\* VFS::read_dir(path)
vfs_read_dir(st, str, checks) ==
    IF parse_path(str).result # "ok" THEN FsOut(parse_path(str).result, <<>>, <<>>, st)
    ELSE read_dir(st, parse_path(str).path, checks)

\* VFS::exists(path)
vfs_exists(st, str, checks) ==
    IF parse_path(str).result # "ok" THEN FsOut(parse_path(str).result, FALSE, <<>>, st)
    ELSE exists(st, parse_path(str).path, checks)

\* VFS::link(to, from)
vfs_link(st, to, from, checks) ==
    IF parse_path(to).result # "ok" THEN FsOut(parse_path(to).result, 0, <<>>, st)
    ELSE IF parse_path(from).result # "ok" THEN FsOut(parse_path(from).result, 0, <<>>, st)
    ELSE link(st, parse_path(to).path, parse_path(from).path, checks)

\* VFS::create_file(path)
vfs_create_file(st, bbm, str, checks) ==
    IF parse_path(str).result # "ok" THEN FsOut(parse_path(str).result, 0, <<>>, st)
    ELSE create_file(st, bbm, parse_path(str).path, checks)

-----------------------------------------------------------------------------
(* The images with a name space, and the calls on Ext2FileSystem.          *)

\* lib.rs: block::SIZE = 4096, for the blocks of a directory (records keep
\* the sizes of the source, so the block is scaled to six short records)
DIR_BLOCK_SIZE == 72
\* the most hard links an inode has when link is called
MaxLinks == 3

\* the record of a name of one to four bytes
ShortLen == ceil(BARE_LEN + 1, REC_ALIGN)

Rec(inode_id, name, filetype, len) ==
    [inode_id |-> inode_id, record_len |-> len, name_len |-> Len(name),
     filetype |-> FiletypeCode(filetype), name |-> name]

Dot == <<".">>
DotDot == <<".", ".">>

\* ids of the inodes of the images
F_ID == ROOT_ID + 1
D_ID == ROOT_ID + 2
S_ID == ROOT_ID + 3
T_ID == ROOT_ID + 4
G_ID == ROOT_ID + 5

\* The root directory: /f a file, /d a directory, /s a symlink.  "slack": the
\* last record has room for one more; "full": a hard link /h to f fills the
\* block; "two": as full, with a second block that holds one unused record.
RootVariants == {"slack", "full", "two"}

RootHead ==
    <<Rec(ROOT_ID, Dot, "Directory", ShortLen), Rec(ROOT_ID, DotDot, "Directory", ShortLen),
      Rec(F_ID, <<"f">>, "RegularFile", ShortLen), Rec(D_ID, <<"d">>, "Directory", ShortLen)>>

RootDir(v) ==
    IF v = "slack"
    THEN RootHead \o <<Rec(S_ID, <<"s">>, "SymbolicLink", DIR_BLOCK_SIZE - 4 * ShortLen)>>
    ELSE RootHead \o <<Rec(S_ID, <<"s">>, "SymbolicLink", ShortLen),
                       Rec(F_ID, <<"h">>, "RegularFile", DIR_BLOCK_SIZE - 5 * ShortLen)>>
             \o (IF v = "two" THEN <<Rec(0, <<>>, "None", DIR_BLOCK_SIZE)>> ELSE <<>>)

\* /d: /d/t a symlink, /d/g a file whose record has room for more
SubDir ==
    <<Rec(D_ID, Dot, "Directory", ShortLen), Rec(ROOT_ID, DotDot, "Directory", ShortLen),
      Rec(T_ID, <<"t">>, "SymbolicLink", ShortLen),
      Rec(G_ID, <<"g">>, "RegularFile", DIR_BLOCK_SIZE - 3 * ShortLen)>>

\* a target of SYMLINK_INLINE + 1 bytes, which ext2 keeps in a data block
LongTarget == [i \in 1..(SYMLINK_INLINE + 1) |-> "x"]

\* the targets of /s and of /d/t in the images
TargetPairs ==
    <<  <<  <<"f">>,                <<"g">>  >>,
        <<  <<"/", "d", "/", "g">>, <<"/", "f">>  >>,
        <<  <<"d">>,                <<"/", "d">>  >>,
        <<  <<"/", "d">>,           <<"f">>  >>,
        <<  <<"s">>,                <<"/", "d", "/", "t">>  >>,
        <<  <<"/", "d", "/", "t">>, <<"/", "s">>  >>,
        <<  LongTarget,             <<"g">>  >>  >>

DiskInode(filetype, hard_links, dir, target) ==
    [filetype |-> filetype, hard_links |-> hard_links, dir |-> dir, target |-> target]

Image(v, p) ==
    [i \in InodeIds |->
        CASE i = ROOT_ID -> DiskInode("Directory", 3, RootDir(v), <<>>)
          [] i = F_ID -> DiskInode("RegularFile", IF v = "slack" THEN 1 ELSE 2, <<>>, <<>>)
          [] i = D_ID -> DiskInode("Directory", 2, SubDir, <<>>)
          [] i = S_ID -> DiskInode("SymbolicLink", 1, <<>>, TargetPairs[p][1])
          [] i = T_ID -> DiskInode("SymbolicLink", 1, <<>>, TargetPairs[p][2])
          [] i = G_ID -> DiskInode("RegularFile", 1, <<>>, <<>>)
          [] OTHER -> DiskInode("None", 0, <<>>, <<>>)]

\* the bitmaps of the images: no inode free; an inode free in a group with
\* free blocks; an inode free and no block free
DirBitmaps ==
    {<<[g \in Groups |-> [i \in Bits |-> 1]], [g \in Groups |-> FullInodes]>>,
     <<[g \in Groups |-> ImageBitmap(1, 1)],
       [g \in Groups |-> IF g = 1 THEN FullInodes ELSE OneFreeInode]>>,
     <<[g \in Groups |-> [i \in Bits |-> 1]],
       [g \in Groups |-> IF g = 1 THEN FullInodes ELSE OneFreeInode]>>}

NoFs == [op |-> "none", to |-> <<>>, from |-> <<>>, path |-> <<>>, data |-> <<>>,
         result |-> "none", found |-> FALSE, ret |-> 0, list |-> <<>>, steps |-> <<>>]

Now == FsState(inodes, sb, bg, inode_bitmap)

\* no name space: the runs about the allocator and about files
FsIdle ==
    /\ inodes = <<>>
    /\ fsop = NoFs
    /\ preFs = FsState(<<>>, <<>>, <<>>, <<>>)

InitDir ==
    /\ \E m \in DirBitmaps :
          /\ block_bitmap = m[1]
          /\ inode_bitmap = m[2]
    /\ bg = Descriptors(block_bitmap, inode_bitmap)
    /\ sb = Superblock(bg, 0)
    /\ call = NoCall
    /\ pre = Snapshot
    /\ \E v \in RootVariants, p \in DOMAIN TargetPairs : inodes = Image(v, p)
    /\ fsop = NoFs
    /\ preFs = Now

\* the paths of the calls
ExistsPaths ==
    {<<"/">>, <<"/", "f">>, <<"/", "x">>, <<"/", "s">>, <<"/", "n">>,
     <<"/", "d", "/", "t">>, <<"/", "d", "/", "g">>, <<"/", "d", "/", "n">>,
     <<"/", "s", "/", "g">>, <<"/", "d", "/", "t", "/", "g">>,
     <<"/", "f", "/", "n">>}
LinkTargets ==
    {<<"/", "f">>, <<"/", "d">>, <<"/", "x">>, <<"/", "s">>,
     <<"/", "d", "/", "g">>, <<"/", "d", "/", "t">>, <<"/", "f", "/", "n">>}
NewPaths ==
    {<<"/">>, <<"/", "n">>, <<"/", "f">>, <<"/", "a", "b", "c", "d">>,
     <<"/", "d", "/", "n">>, <<"/", "f", "/", "n">>, <<"/", "x", "/", "n">>,
     <<"/", "s", "/", "n">>}

FsCommit(c, o) ==
    /\ fsop' = [c EXCEPT !.result = o.result, !.steps = o.steps]
    /\ preFs' = Now
    /\ inodes' = o.state.inodes
    /\ sb' = o.state.sb
    /\ bg' = o.state.bg
    /\ inode_bitmap' = o.state.inode_bitmap
    /\ UNCHANGED <<block_bitmap, call, pre>>
    /\ UNCHANGED fileVars
    /\ UNCHANGED extVars

fsPanicked == IsPanic(fsop.result)

Exists ==
    /\ fsop.op = "none"
    /\ \E path \in ExistsPaths, checks \in Builds :
          LET o == exists(Now, VfsPathFrom(path), checks)
          IN  FsCommit([NoFs EXCEPT !.op = "exists", !.path = path, !.found = o.ret], o)

Link ==
    /\ fsop.op = "none"
    /\ \A i \in InodeIds : inodes[i].hard_links <= MaxLinks
    /\ \E to \in LinkTargets, from \in NewPaths, checks \in Builds :
          LET o == link(Now, VfsPathFrom(to), VfsPathFrom(from), checks)
          IN  FsCommit([NoFs EXCEPT !.op = "link", !.to = to, !.from = from], o)

CreateFile ==
    /\ fsop.op = "none"
    /\ \E path \in NewPaths, checks \in Builds :
          LET o == create_file(Now, block_bitmap, VfsPathFrom(path), checks)
          IN  FsCommit([NoFs EXCEPT !.op = "create_file", !.path = path, !.ret = o.ret], o)

\* strings that are not paths from the root, and one that is
VfsStrings ==
    {<<>>, <<"f">>, <<"d">>, <<"n">>, <<"d", "/", "g">>, <<"/">>, <<"/", "d">>}

\* a call of VFS with path strings of any shape
VfsCall ==
    /\ fsop.op = "none"
    /\ \A i \in InodeIds : inodes[i].hard_links <= MaxLinks
    /\ \E str \in VfsStrings, checks \in Builds :
          \/ LET o == vfs_read_dir(Now, str, checks)
             IN  FsCommit([NoFs EXCEPT !.op = "vfs.read_dir", !.path = str, !.list = o.ret], o)
          \/ LET o == vfs_exists(Now, str, checks)
             IN  FsCommit([NoFs EXCEPT !.op = "vfs.exists", !.path = str, !.found = o.ret], o)
          \/ LET o == vfs_create_file(Now, block_bitmap, str, checks)
             IN  FsCommit([NoFs EXCEPT !.op = "vfs.create_file", !.path = str], o)
          \/ \E other \in {<<"/", "f">>, <<"n">>} :
                \/ LET o == vfs_link(Now, str, other, checks)
                   IN  FsCommit([NoFs EXCEPT !.op = "vfs.link", !.to = str, !.from = other], o)
                \/ LET o == vfs_link(Now, other, str, checks)
                   IN  FsCommit([NoFs EXCEPT !.op = "vfs.link", !.to = other, !.from = str], o)

OpenPaths ==
    {<<"/", "f">>, <<"/", "s">>, <<"/", "d">>, <<"/", "d", "/", "t">>, <<"/", "d", "/", "g">>}

OpenFile ==
    /\ fsop.op = "none"
    /\ \E path \in OpenPaths, checks \in Builds :
          LET o == open_file(Now, VfsPathFrom(path), checks)
          IN  FsCommit([NoFs EXCEPT !.op = "open_file", !.path = path, !.ret = o.ret], o)

\* test_symlink: write_at(0, bytes) on the inode open_file returned; file
\* and disk stand for the content of that inode
WriteOpened ==
    /\ fsop.op = "open_file"
    /\ fsop.result = "ok"
    /\ \E data \in WriteData :
          LET w == write_at(file, disk, 0, data)
          IN  /\ fsop' = [fsop EXCEPT !.op = "write_at", !.data = data,
                                      !.result = IF w.panic = "none" THEN "ok" ELSE w.panic]
              /\ file' = w.file
              /\ disk' = w.disk
    /\ UNCHANGED <<rd, reader>>
    /\ UNCHANGED allocVars
    /\ UNCHANGED <<inodes, preFs>>
    /\ UNCHANGED extVars

\* the targets of the new symlinks
SymlinkTargets == {<<"f">>, LongTarget}

Symlink ==
    /\ fsop.op = "none"
    /\ \E to \in SymlinkTargets, from \in NewPaths, checks \in Builds :
          LET o == symlink(Now, block_bitmap, VfsPathFrom(to), VfsPathFrom(from), checks)
          IN  FsCommit([NoFs EXCEPT !.op = "symlink", !.to = to, !.from = from], o)

\* read_symlink on the inode of a directory entry (entry.inode(), as print_dir of
\* the tests does for every symlink it lists)
ReadSymlink ==
    /\ fsop.op = "none"
    /\ \E id \in InodeIds :
          /\ inodes[id].filetype = "SymbolicLink"
          /\ LET r == read_symlink(inodes, Handle(id, "SymbolicLink", 0))
             IN  FsCommit([NoFs EXCEPT !.op = "read_symlink", !.ret = id, !.list = r.ret],
                          FsOut(r.result, id, <<>>, Now))

RemoveFile ==
    /\ fsop.op = "none"
    /\ \E path \in OpenPaths, checks \in Builds :
          LET o == remove_file(Now, VfsPathFrom(path), checks)
          IN  FsCommit([NoFs EXCEPT !.op = "remove_file", !.path = path], o)

FsReturn ==
    /\ fsop.op # "none"
    /\ ~fsPanicked
    /\ fsop' = NoFs
    /\ preFs' = Now
    /\ UNCHANGED <<inodes, sb, bg, block_bitmap, inode_bitmap, call, pre>>
    /\ UNCHANGED fileVars
    /\ UNCHANGED extVars

-----------------------------------------------------------------------------
(* The block cache (block_device, behind BLOCK_CACHE_MANAGER of lib.rs)    *)
(* and the calls of the engine that go through it.  A block is modelled by *)
(* the one value its bytes stand for; the inode handle of block b is the   *)
(* record [block_id |-> b].                                                *)

\* blocks of the device
NumBlocks == 3
\* blocks the cache holds at most
CacheSlots == 2
\* modify calls of one run; the n-th of them writes the value n
MaxWrites == 2

BlockIds == 0 .. NumBlocks - 1
InodeHandles == {[block_id |-> b] : b \in BlockIds}
NoEntry == [resident |-> FALSE, buf |-> 0, dirty |-> FALSE]
EmptyCache == [b \in BlockIds |-> NoEntry]
Resident(c) == {b \in DOMAIN c : c[b].resident}
Dirty(c) == {b \in DOMAIN c : c[b].resident /\ c[b].dirty}

\* block_device::sync(block_id): if dirty, write back and clear the flag
block_device_sync(c, d, b) ==
    IF c[b].resident /\ c[b].dirty
    THEN [cache |-> [c EXCEPT ![b].dirty = FALSE], device |-> [d EXCEPT ![b] = c[b].buf]]
    ELSE [cache |-> c, device |-> d]

\* the blocks whose slot a load of b may take: none is needed (b itself)
\* while b is resident or a slot is free, else any resident block
Victims(c, b) ==
    IF c[b].resident \/ Cardinality(Resident(c)) < CacheSlots THEN {b} ELSE Resident(c)

\* BlockCacheManager: the entry of block b, loaded from the device on a
\* miss; on cache pressure the victim is synced before its slot is reused
get_block_cache(c, d, b, victim) ==
    IF c[b].resident THEN [cache |-> c, device |-> d]
    ELSE LET s == IF victim = b THEN [cache |-> c, device |-> d]
                  ELSE block_device_sync(c, d, victim)
             freed == IF victim = b THEN s.cache ELSE [s.cache EXCEPT ![victim] = NoEntry]
         IN  [cache |-> [freed EXCEPT ![b] = [resident |-> TRUE, buf |-> s.device[b],
                                              dirty |-> FALSE]],
              device |-> s.device]

\* block_device::read(block_id, offset, view)
block_device_read(c, d, b, victim) ==
    LET g == get_block_cache(c, d, b, victim)
    IN  [ret |-> g.cache[b].buf, cache |-> g.cache, device |-> g.device]

\* block_device::modify(block_id, offset, mutator): marks the block dirty
block_device_modify(c, d, b, val, victim) ==
    LET g == get_block_cache(c, d, b, victim)
    IN  [ret |-> val, cache |-> [g.cache EXCEPT ![b].buf = val, ![b].dirty = TRUE],
         device |-> g.device]

\* the flush of the cache: sync every dirty block
block_device_flush(c, d) ==
    [cache |-> [b \in DOMAIN c |-> [c[b] EXCEPT !.dirty = FALSE]],
     device |-> [b \in DOMAIN d |-> IF c[b].resident /\ c[b].dirty THEN c[b].buf ELSE d[b]]]

\* block_device::register_block_device: the cache of a fresh engine is empty
register_block_device(d) == [cache |-> [b \in DOMAIN d |-> NoEntry], device |-> d]

\* Inode::read_disk_inode
read_disk_inode(c, d, inode, victim) == block_device_read(c, d, inode.block_id, victim)

\* a modify_disk_inode whose closure works on a copy
modify_disk_inode_on_copy(c, d, inode, val, victim) ==
    block_device_read(c, d, inode.block_id, victim)

\* Inode::modify_disk_inode
modify_disk_inode(c, d, inode, val, victim) ==
    block_device_modify(c, d, inode.block_id, val, victim)

\* Inode::sync_disk_inode
sync_disk_inode(c, d, inode) == block_device_sync(c, d, inode.block_id)

\* Ext2Layout::flush
layout_flush(c, d) == block_device_flush(c, d)

\* an Ext2FileSystem::flush that writes nothing back
flush_nothing(c, d) == [cache |-> c, device |-> d]

\* Ext2FileSystem::flush
flush(c, d) == layout_flush(c, d)

\* Ext2FileSystem::open(block_dev)
open(d) == register_block_device(d)

\* what the engine reads at each inode handle: the input of metadata and
\* read_dir
View(c, d) ==
    [b \in BlockIds |->
        read_disk_inode(c, d, [block_id |-> b], CHOOSE v \in Victims(c, b) : TRUE).ret]

NoCop == [op |-> "none", block |-> 0, ret |-> 0, hit |-> FALSE, view |-> <<>>,
          dirty |-> {}, after_flush |-> FALSE]

\* how the value last written to block b got where it is
Via(c, c2, b, old) ==
    IF b \in Dirty(c) /\ ~c2[b].resident THEN "evict"
    ELSE IF b \in Dirty(c) /\ ~c2[b].dirty THEN "sync"
    ELSE old

CacheIdle ==
    /\ device = <<>>
    /\ cache = <<>>
    /\ cop = NoCop
    /\ shadow = <<>>
    /\ writes = 0

InitCache ==
    /\ device = [b \in BlockIds |-> 0]
    /\ cache = EmptyCache
    /\ cop = NoCop
    /\ shadow = [b \in BlockIds |-> [val |-> 0, via |-> "init"]]
    /\ writes = 0

CacheCommit(c, o) ==
    /\ cop' = c
    /\ cache' = o.cache
    /\ device' = o.device
    /\ UNCHANGED allocVars
    /\ UNCHANGED fileVars
    /\ UNCHANGED dirVars
    /\ UNCHANGED <<thr, meta, task, handed>>

ReadInode ==
    \E inode \in InodeHandles :
      \E victim \in Victims(cache, inode.block_id) :
        LET o == read_disk_inode(cache, device, inode, victim)
        IN  /\ CacheCommit([NoCop EXCEPT !.op = "read", !.block = inode.block_id,
                                         !.ret = o.ret,
                                         !.hit = cache[inode.block_id].resident], o)
            /\ shadow' = [b \in BlockIds |->
                             [shadow[b] EXCEPT !.via = Via(cache, o.cache, b, @)]]
            /\ UNCHANGED writes

ModifyInode ==
    /\ writes < MaxWrites
    /\ \E inode \in InodeHandles :
        \E victim \in Victims(cache, inode.block_id) :
          LET o == modify_disk_inode(cache, device, inode, writes + 1, victim)
          IN  /\ CacheCommit([NoCop EXCEPT !.op = "modify", !.block = inode.block_id,
                                           !.ret = writes + 1,
                                           !.hit = cache[inode.block_id].resident], o)
              /\ shadow' = [b \in BlockIds |->
                               IF b = inode.block_id
                               THEN [val |-> writes + 1, via |-> "cache"]
                               ELSE [shadow[b] EXCEPT !.via = Via(cache, o.cache, b, @)]]
              /\ writes' = writes + 1

SyncInode ==
    \E inode \in InodeHandles :
        LET o == sync_disk_inode(cache, device, inode)
        IN  /\ CacheCommit([NoCop EXCEPT !.op = "sync", !.block = inode.block_id], o)
            /\ shadow' = [b \in BlockIds |->
                             [shadow[b] EXCEPT !.via = Via(cache, o.cache, b, @)]]
            /\ UNCHANGED writes

Flush ==
    /\ cop.op # "flush"
    /\ LET o == flush(cache, device)
       IN  /\ CacheCommit([NoCop EXCEPT !.op = "flush", !.view = View(cache, device),
                                        !.dirty = Dirty(cache)], o)
           /\ shadow' = [b \in BlockIds |->
                            [shadow[b] EXCEPT !.via = Via(cache, o.cache, b, @)]]
           /\ UNCHANGED writes

\* a fresh engine on the same device; what the cache of the old one had
\* not written back is gone
Open ==
    /\ cop.op # "open"
    /\ LET o == open(device)
       IN  /\ CacheCommit([NoCop EXCEPT !.op = "open",
                                        !.after_flush = (cop.op = "flush"),
                                        !.view = IF cop.op = "flush" THEN cop.view
                                                 ELSE View(cache, device),
                                        !.dirty = IF cop.op = "flush" THEN cop.dirty
                                                  ELSE Dirty(cache)], o)
           /\ shadow' = [b \in BlockIds |->
                            [val |-> device[b],
                             via |-> IF device[b] = shadow[b].val /\ shadow[b].via # "cache"
                                     THEN shadow[b].via ELSE "init"]]
           /\ UNCHANGED writes

-----------------------------------------------------------------------------
(* The mutexes an operation of the engine takes, in program order.  A      *)
(* program is a sequence of instructions: acquire or release of a mutex,   *)
(* or the panic that ends the call.  spin::Mutex is not reentrant: a       *)
(* thread that acquires a mutex it holds spins for ever.                   *)

\* threads that call into the engine
NumThreads == 2

Threads == 1 .. NumThreads

ALLOCATOR == [kind |-> "allocator", idx |-> 0]
SUPERBLOCK == [kind |-> "superblock", idx |-> 0]
GROUP(g) == [kind |-> "group", idx |-> g]
CACHE == [kind |-> "cache", idx |-> 0]

\* the place of a mutex in the lock order: VFS operation, allocator,
\* (superblock, taken under the allocator and dropped before a group is
\* taken), group descriptor, block cache
Rank(m) ==
    CASE m.kind = "vfs" -> 1
      [] m.kind = "allocator" -> 2
      [] m.kind = "superblock" -> 3
      [] m.kind = "group" -> 4
      [] m.kind = "cache" -> 5

acquire(m) == <<[ins |-> "acquire", mutex |-> m]>>
release(m) == <<[ins |-> "release", mutex |-> m]>>
todo == <<[ins |-> "panic", mutex |-> CACHE]>>

\* mutex.lock() for the length of the guard
locked(m, body) == acquire(m) \o body \o release(m)

\* block_device::read / modify: the lock of BLOCK_CACHE_MANAGER is held
\* across the whole typed-view closure
block_device_locks(closure) == locked(CACHE, closure)

\* Ext2Inode::read_at: one block_device::read for a data block
Ext2Inode_read_at_locks == block_device_locks(<<>>)

\* Ext2Inode::write_at: one block_device::modify for a data block
Ext2Inode_write_at_locks == block_device_locks(<<>>)

\* VfsInode::read_at of Inode: Ext2Inode::read_at in the closure of read_disk_inode
VfsInode_read_at_locks == block_device_locks(Ext2Inode_read_at_locks)

\* Inode::read_symlink: the closure reads the inode record only
read_symlink_locks == block_device_locks(<<>>)

\* Dir::from_inode
from_inode_locks == Ext2Inode_read_at_locks

\* Dir::write_to_disk
write_to_disk_locks == Ext2Inode_write_at_locks

\* Inode::inner_read_dir
inner_read_dir_locks == block_device_locks(from_inode_locks)

\* Ext2Layout::inode_nth: get_inode (Inode::new reads the file type) under the group's lock
inode_nth_locks(g) == locked(GROUP(g), block_device_locks(<<>>))

\* Inode::read_dir of the root directory
read_dir_locks == inode_nth_locks(0) \o inner_read_dir_locks

\* Ext2Allocator::free_blocks, dec_free_blocks, free_inodes, dec_free_inode
superblock_locks == locked(SUPERBLOCK, <<>>)

RECURSIVE alloc_groups_locks(_)
\* the loop of alloc_data over the groups from g on: alloc_blocks under the group's lock
alloc_groups_locks(g) ==
    IF g >= NumGroups THEN <<>>
    ELSE locked(GROUP(g), block_device_locks(<<>>)) \o alloc_groups_locks(g + 1)

\* Ext2Allocator::alloc_data
alloc_data_locks == superblock_locks \o alloc_groups_locks(0) \o superblock_locks

\* Ext2Allocator::alloc_inode: Ext2BlockGroupDesc::alloc_inode is todo!()
alloc_inode_locks == superblock_locks \o superblock_locks \o acquire(GROUP(0)) \o todo

\* Inode::insert_file_entry
insert_file_entry_locks ==
    locked(ALLOCATOR, alloc_inode_locks)
        \o inode_nth_locks(0)
        \o block_device_locks(from_inode_locks \o write_to_disk_locks)

\* Inode::insert_hardlink_entry
insert_hardlink_entry_locks ==
    block_device_locks(from_inode_locks \o write_to_disk_locks) \o block_device_locks(<<>>)

\* the calls a thread makes
LockOps == {"read_at", "read_symlink", "read_dir", "alloc_data", "create_file", "link"}

Program(op) ==
    CASE op = "read_at" -> VfsInode_read_at_locks
      [] op = "read_symlink" -> read_symlink_locks
      [] op = "read_dir" -> read_dir_locks
      [] op = "alloc_data" -> locked(ALLOCATOR, alloc_data_locks)
      [] op = "create_file" -> insert_file_entry_locks
      [] op = "link" -> insert_hardlink_entry_locks
      [] OTHER -> <<>>

IdleThread == [op |-> "none", pc |-> 1, held |-> {}, status |-> "idle", ordered |-> TRUE]

Holder(m) == {t \in Threads : m \in thr[t].held}

Instr(t) == Program(thr[t].op)[thr[t].pc]

AtInstr(t, ins) ==
    /\ thr[t].status = "run"
    /\ thr[t].pc <= Len(Program(thr[t].op))
    /\ Instr(t).ins = ins

LockIdle == thr = <<>>

InitLock == thr = [t \in Threads |-> IdleThread]

LockFrame ==
    /\ UNCHANGED allocVars
    /\ UNCHANGED fileVars
    /\ UNCHANGED dirVars
    /\ UNCHANGED cacheVars
    /\ UNCHANGED <<meta, task, handed>>

Start(t) ==
    /\ thr[t].status = "idle"
    /\ \E op \in LockOps : thr' = [thr EXCEPT ![t] = [IdleThread EXCEPT !.op = op,
                                                                  !.status = "run"]]
    /\ LockFrame

\* lock(): taken when free; a thread that holds the mutex itself spins for
\* ever; a thread that finds it held by another waits
Acquire(t) ==
    /\ AtInstr(t, "acquire")
    /\ Holder(Instr(t).mutex) \subseteq {t}
    /\ thr' = [thr EXCEPT ![t] =
                 IF Instr(t).mutex \in thr[t].held
                 THEN [@ EXCEPT !.status = "spin"]
                 ELSE [@ EXCEPT !.held = @ \cup {Instr(t).mutex},
                                !.pc = @ + 1,
                                !.ordered = \A h \in thr[t].held : Rank(h) < Rank(Instr(t).mutex)]]
    /\ LockFrame

Release(t) ==
    /\ AtInstr(t, "release")
    /\ thr' = [thr EXCEPT ![t].held = @ \ {Instr(t).mutex}, ![t].pc = @ + 1]
    /\ LockFrame

\* a panic unwinds: every guard is dropped
Panic(t) ==
    /\ AtInstr(t, "panic")
    /\ thr' = [thr EXCEPT ![t] = IdleThread]
    /\ LockFrame

Finish(t) ==
    /\ thr[t].status = "run"
    /\ thr[t].pc > Len(Program(thr[t].op))
    /\ thr' = [thr EXCEPT ![t] = IdleThread]
    /\ LockFrame

-----------------------------------------------------------------------------
(* The permissions of metadata(): TypePerm::permissions (disk_inode.rs)    *)
(* and the conversion of a three-bit value to VfsPermission (vfs/meta.rs). *)

\* disk_inode.rs: the flags of TypePerm
O_EXEC == 1
O_WRITE == 2
O_READ == 4
G_EXEC == 8
G_WRITE == 16
G_READ == 32
U_EXEC == 64
U_WRITE == 128
U_READ == 256
\* the modes: the low 12 bits of type_perm, STICKY, SET_GID and SET_UID included
MODE_LIMIT == 4096

\* TypePerm::contains for a flag of one bit
contains(mode, flag) == (mode \div flag) % 2 = 1

\* value & mask != 0 for a mask of one bit
masked(value, mask) == (value \div mask) % 2 = 1

\* impl From<u8> for VfsPermission
VfsPermission_from(value) ==
    [read |-> masked(value, 1), write |-> masked(value, 2), execute |-> masked(value, 4)]

\* user |= 0b100 / 0b010 / 0b001 in TypePerm::permissions
packed(mode, r, w, x) ==
    (IF contains(mode, r) THEN 4 ELSE 0) + (IF contains(mode, w) THEN 2 ELSE 0)
        + (IF contains(mode, x) THEN 1 ELSE 0)

\* TypePerm::permissions
permissions(mode) ==
    [user |-> VfsPermission_from(packed(mode, U_READ, U_WRITE, U_EXEC)),
     group |-> VfsPermission_from(packed(mode, G_READ, G_WRITE, G_EXEC)),
     others |-> VfsPermission_from(packed(mode, O_READ, O_WRITE, O_EXEC))]

NoPermissions ==
    [user |-> VfsPermission_from(0), group |-> VfsPermission_from(0),
     others |-> VfsPermission_from(0)]

MetaIdle == meta = <<>>

InitMeta ==
    \E mode \in 0 .. MODE_LIMIT - 1 :
        meta = [mode |-> mode, called |-> FALSE, permissions |-> NoPermissions]

\* Inode::metadata: the permissions of the inode's mode
Metadata ==
    /\ ~meta.called
    /\ meta' = [meta EXCEPT !.called = TRUE, !.permissions = permissions(meta.mode)]
    /\ UNCHANGED allocVars
    /\ UNCHANGED fileVars
    /\ UNCHANGED dirVars
    /\ UNCHANGED cacheVars
    /\ UNCHANGED <<thr, task, handed>>

-----------------------------------------------------------------------------
(* Concurrent calls on the allocator.  alloc_data and dealloc_data take    *)
(* &mut self, and the allocator is shared as Arc<Mutex<Ext2Allocator>>     *)
(* (filesystem.rs 47), so a caller holds the allocator's mutex from before *)
(* the call until its result is in hand (dir.rs 434); inside, each group   *)
(* is visited under the mutex Ext2Layout::new put around its descriptor.   *)
(* A thread frees the list its last alloc_data returned.                   *)

\* the number of calls a thread makes
MaxCalls == 2

BlockIdSet == 0..(NumGroups * blocks_per_group - 1)

IdleTask ==
    [op |-> "none", pc |-> "idle", checks |-> FALSE, needed |-> 0, freed |-> <<>>,
     g |-> 0, unmet |-> 0, offset |-> 0, ret |-> <<>>, result |-> "none",
     own |-> <<>>, calls |-> 0]

\* the thread inside a call on the allocator: it holds the allocator's mutex
InAllocator(t) == task[t].pc \in {"admit", "groups", "count", "unlock", "panic"}

ConcIdle == task = <<>> /\ handed = <<>>

InitConc ==
    /\ block_bitmap \in InitBlockBitmaps
    /\ inode_bitmap = [g \in Groups |-> FullInodes]
    /\ bg = Descriptors(block_bitmap, inode_bitmap)
    /\ sb = Superblock(bg, 0)
    /\ call = NoCall
    /\ pre = [sb |-> <<>>, bg |-> <<>>, block_bitmap |-> <<>>, inode_bitmap |-> <<>>]
    /\ \E checks \in Builds : task = [t \in Threads |-> [IdleTask EXCEPT !.checks = checks]]
    /\ handed = [id \in BlockIdSet |-> 0]

ConcFrame ==
    /\ UNCHANGED <<inode_bitmap, call, pre>>
    /\ UNCHANGED fileVars
    /\ UNCHANGED dirVars
    /\ UNCHANGED <<device, cache, cop, shadow, writes, thr, meta>>

\* a thread sets out to call alloc_data(needed), or dealloc_data of the list
\* it holds; the build (with or without overflow checks) is that of the program
CallAlloc(t) ==
    /\ task[t].pc = "idle"
    /\ task[t].calls < MaxCalls
    /\ \E needed \in 1..MaxNeeded :
          task' = [task EXCEPT ![t] =
                      [@ EXCEPT !.op = "alloc_data", !.pc = "lock", !.needed = needed, !.freed = <<>>, !.ret = <<>>,
                                !.result = "none", !.calls = @ + 1]]
    /\ UNCHANGED <<sb, bg, block_bitmap, handed>>
    /\ ConcFrame

CallDealloc(t) ==
    /\ task[t].pc = "idle"
    /\ task[t].calls < MaxCalls
    /\ task[t].own # <<>>
    /\ task' = [task EXCEPT ![t] =
                   [@ EXCEPT !.op = "dealloc_data", !.pc = "lock", !.needed = 0,
                             !.freed = task[t].own, !.ret = <<>>, !.result = "none",
                             !.calls = @ + 1]]
    /\ UNCHANGED <<sb, bg, block_bitmap, handed>>
    /\ ConcFrame

\* allocator.lock(): the thread goes in when no other thread is inside;
\* alloc_data starts with its admission check, dealloc_data with the sort
\* and the slots
LockAllocator(t) ==
    /\ task[t].pc = "lock"
    /\ \A u \in Threads : ~InAllocator(u)
    /\ task' = [task EXCEPT ![t] =
                   IF @.op = "alloc_data"
                   THEN [@ EXCEPT !.pc = "admit"]
                   ELSE IF \E i \in DOMAIN @.freed : bg_idx(@.freed[i]) >= NumGroups
                        THEN [@ EXCEPT !.pc = "panic", !.result = "panic:index",
                                       !.freed = Sort(@)]
                        ELSE [@ EXCEPT !.pc = "groups", !.freed = Sort(@),
                                       !.g = 1, !.offset = 0]]
    /\ UNCHANGED <<sb, bg, block_bitmap, handed>>
    /\ ConcFrame

\* alloc_data: needed > self.free_blocks()
Admit(t) ==
    /\ task[t].pc = "admit"
    /\ LET fb == free_blocks(sb, task[t].checks)
       IN  task' = [task EXCEPT ![t] =
                       IF fb.panic # "none"
                       THEN [@ EXCEPT !.pc = "panic", !.result = fb.panic]
                       ELSE IF @.needed > fb.v
                            THEN [@ EXCEPT !.pc = "unlock", !.result = "NoFreeBlocks"]
                            ELSE [@ EXCEPT !.pc = "groups", !.g = 1, !.unmet = task[t].needed]]
    /\ UNCHANGED <<sb, bg, block_bitmap, handed>>
    /\ ConcFrame

\* one round of the loop of alloc_data: bg.lock(), alloc_blocks(unmet),
\* unmet -= allocated.len(), ret.extend(allocated), break when unmet == 0
AllocGroup(t) ==
    /\ task[t].pc = "groups"
    /\ task[t].op = "alloc_data"
    /\ LET g == task[t].g
           a == alloc_blocks(block_bitmap[g], bg[g].free_blocks_count, task[t].unmet,
                             task[t].checks)
           left == (task[t].unmet - Len(a.vec)) % WRAP
       IN  /\ bg' = [bg EXCEPT ![g].free_blocks_count = a.cnt]
           /\ block_bitmap' = [block_bitmap EXCEPT ![g] = a.bm]
           /\ task' = [task EXCEPT ![t] =
                          IF a.panic # "none"
                          THEN [@ EXCEPT !.pc = "panic", !.result = a.panic]
                          ELSE IF Len(a.vec) > @.unmet /\ @.checks
                               THEN [@ EXCEPT !.pc = "panic", !.result = "panic:overflow"]
                               ELSE [@ EXCEPT !.unmet = left, !.ret = @ \o a.vec,
                                              !.g = g + 1,
                                              !.pc = IF left = 0 \/ g = NumGroups
                                                     THEN "count" ELSE "groups"]]
    /\ UNCHANGED <<sb, handed>>
    /\ ConcFrame

\* one round of the second loop of dealloc_data: bg.lock(),
\* dealloc_blocks(&freed[offset..offset + slots[idx]]), offset += slots[idx]
DeallocGroup(t) ==
    /\ task[t].pc = "groups"
    /\ task[t].op = "dealloc_data"
    /\ LET g == task[t].g
           n == Slots(task[t].freed, g - 1)
           d == dealloc_blocks(block_bitmap[g], bg[g].free_blocks_count,
                               SubSeq(task[t].freed, task[t].offset + 1, task[t].offset + n),
                               task[t].checks)
       IN  /\ bg' = [bg EXCEPT ![g].free_blocks_count = d.cnt]
           /\ block_bitmap' = [block_bitmap EXCEPT ![g] = d.bm]
           /\ task' = [task EXCEPT ![t] =
                          IF d.panic # "none"
                          THEN [@ EXCEPT !.pc = "panic", !.result = d.panic]
                          ELSE [@ EXCEPT !.offset = @ + n, !.g = g + 1,
                                         !.pc = IF g = NumGroups THEN "count"
                                                ELSE "groups"]]
    /\ UNCHANGED <<sb, handed>>
    /\ ConcFrame

\* dec_free_blocks(needed) and assert_eq!(unmet, 0), or
\* inc_free_blocks(freed.len()) and assert_eq!(offset, freed.len())
CountSuperblock(t) ==
    /\ task[t].pc = "count"
    /\ IF task[t].op = "alloc_data"
       THEN IF task[t].needed > sb.free_blocks_count /\ task[t].checks
            THEN /\ task' = [task EXCEPT ![t] =
                                [@ EXCEPT !.pc = "panic", !.result = "panic:overflow"]]
                 /\ UNCHANGED sb
            ELSE /\ sb' = [sb EXCEPT !.free_blocks_count = (@ - task[t].needed) % WRAP]
                 /\ task' = [task EXCEPT ![t] =
                                IF @.unmet # 0
                                THEN [@ EXCEPT !.pc = "panic", !.result = "panic:assert"]
                                ELSE [@ EXCEPT !.pc = "unlock", !.result = "ok"]]
       ELSE /\ sb' = [sb EXCEPT !.free_blocks_count = (@ + Len(task[t].freed)) % WRAP]
            /\ task' = [task EXCEPT ![t] =
                           IF @.offset # Len(@.freed)
                           THEN [@ EXCEPT !.pc = "panic", !.result = "panic:assert"]
                           ELSE [@ EXCEPT !.pc = "unlock", !.result = "ok"]]
    /\ UNCHANGED <<bg, block_bitmap, handed>>
    /\ ConcFrame

\* the call returns and the guard of the allocator's mutex is dropped; the
\* caller keeps the list alloc_data returned, and no longer holds the list
\* it freed
UnlockAllocator(t) ==
    /\ task[t].pc = "unlock"
    /\ task' = [task EXCEPT ![t] =
                   [IdleTask EXCEPT
                       !.checks = task[t].checks,
                       !.calls = task[t].calls,
                       !.own = IF task[t].op = "alloc_data" /\ task[t].result = "ok"
                               THEN task[t].ret
                               ELSE IF task[t].op = "dealloc_data" THEN <<>>
                               ELSE task[t].own]]
    /\ handed' = [id \in BlockIdSet |->
                     IF task[t].result # "ok" THEN handed[id]
                     ELSE IF task[t].op = "alloc_data"
                          THEN handed[id] + (IF id \in Range(task[t].ret) THEN 1 ELSE 0)
                          ELSE IF id \in Range(task[t].freed) THEN 0 ELSE handed[id]]
    /\ UNCHANGED <<sb, bg, block_bitmap>>
    /\ ConcFrame

-----------------------------------------------------------------------------
(* Concurrent calls of link and create_file.  Ext2FileSystem's methods     *)
(* take &self and the struct holds only Arcs (filesystem.rs 24-27), VFS    *)
(* holds the file system in a plain Box (vfs/mod.rs 26-28): no mutex is    *)
(* taken around a call.  A call is the walk, then check_valid_insert, then *)
(* the insert; each of them reads or modifies the disk inodes in closures  *)
(* of its own, taken here as one step each.                                *)

\* the new paths and the targets of the concurrent calls
RacePaths == {<<"/", "n">>, <<"/", "d", "/", "n">>}
RaceTargets == {<<"/", "f">>}

IdleCaller ==
    [op |-> "none", pc |-> "idle", checks |-> FALSE, to |-> <<>>, from |-> <<>>,
     dir |-> NoHandle, target |-> NoHandle, result |-> "none", calls |-> 0]

InitRace ==
    /\ \E m \in DirBitmaps :
          /\ block_bitmap = m[1]
          /\ inode_bitmap = m[2]
    /\ bg = Descriptors(block_bitmap, inode_bitmap)
    /\ sb = Superblock(bg, 0)
    /\ call = NoCall
    /\ pre = [sb |-> <<>>, bg |-> <<>>, block_bitmap |-> <<>>, inode_bitmap |-> <<>>]
    /\ \E v \in RootVariants : inodes = Image(v, 1)
    /\ fsop = NoFs
    /\ preFs = FsState(<<>>, <<>>, <<>>, <<>>)
    /\ \E checks \in Builds : task = [t \in Threads |-> [IdleCaller EXCEPT !.checks = checks]]
    /\ handed = <<>>

RaceFrame ==
    /\ UNCHANGED <<block_bitmap, call, pre, fsop, preFs, handed>>
    /\ UNCHANGED fileVars
    /\ UNCHANGED <<device, cache, cop, shadow, writes, thr, meta>>

\* the state of the file system changes to st
RaceCommit(st) ==
    /\ inodes' = st.inodes
    /\ sb' = st.sb
    /\ bg' = st.bg
    /\ inode_bitmap' = st.inode_bitmap

\* a thread calls link(to, from) or create_file(from)
CallFs(t) ==
    /\ task[t].pc \in {"idle", "done"}
    /\ task[t].calls < MaxCalls
    /\ \E op \in {"link", "create_file"}, to \in RaceTargets, from \in RacePaths :
          /\ op = "create_file" => to = CHOOSE x \in RaceTargets : TRUE
          /\ task' = [task EXCEPT ![t] =
                         [IdleCaller EXCEPT !.op = op, !.pc = "walk", !.to = to,
                                            !.from = from, !.checks = task[t].checks,
                                            !.calls = task[t].calls + 1]]
    /\ UNCHANGED <<inodes, sb, bg, inode_bitmap>>
    /\ RaceFrame

\* root_inode.walk(&to)? and root_inode.walk(&from.parent())?
WalkFs(t) ==
    /\ task[t].pc = "walk"
    /\ LET root == root_inode(inodes, task[t].checks)
           target == walk(inodes, root.inode, VfsPathFrom(task[t].to), <<>>, {},
                          task[t].checks)
           dir_inode == walk(inodes, root.inode, parent(VfsPathFrom(task[t].from)), <<>>, {},
                             task[t].checks)
           failed == IF root.result # "ok" THEN root.result
                     ELSE IF task[t].op = "link" /\ target.result # "ok" THEN target.result
                     ELSE IF dir_inode.result # "ok" THEN dir_inode.result
                     ELSE "none"
       IN  task' = [task EXCEPT ![t] =
                       IF failed # "none"
                       THEN [@ EXCEPT !.pc = IF IsPanic(failed) THEN "panic" ELSE "done",
                                      !.result = failed]
                       ELSE [@ EXCEPT !.pc = "check", !.dir = dir_inode.inode,
                                      !.target = target.inode]]
    /\ UNCHANGED <<inodes, sb, bg, inode_bitmap>>
    /\ RaceFrame

\* self.check_valid_insert(path)?, and for link the test of is_file
CheckFs(t) ==
    /\ task[t].pc = "check"
    /\ LET valid == check_valid_insert(inodes, task[t].dir, VfsPathFrom(task[t].from))
           failed == IF valid # "ok" THEN valid
                     ELSE IF task[t].op = "link" /\ ~is_file(task[t].target) THEN "NotAFile"
                     ELSE "none"
       IN  task' = [task EXCEPT ![t] =
                       IF failed # "none"
                       THEN [@ EXCEPT !.pc = IF IsPanic(failed) THEN "panic" ELSE "done",
                                      !.result = failed]
                       ELSE [@ EXCEPT !.pc = "insert"]]
    /\ UNCHANGED <<inodes, sb, bg, inode_bitmap>>
    /\ RaceFrame

\* insert_hardlink_entry(filename, target_inode) or insert_file_entry(filename)
InsertFs(t) ==
    /\ task[t].pc = "insert"
    /\ LET path == VfsPathFrom(task[t].from)
           filename == path.inner[Len(path.inner)]
           o == IF task[t].op = "link"
                THEN insert_hardlink_entry(Now, task[t].dir, filename, task[t].target,
                                           task[t].checks)
                ELSE insert_file_entry(Now, block_bitmap, task[t].dir, filename,
                                       task[t].checks)
       IN  /\ RaceCommit(o.state)
           /\ task' = [task EXCEPT ![t] =
                          [@ EXCEPT !.pc = IF IsPanic(o.result) THEN "panic" ELSE "done",
                                    !.result = o.result]]
    /\ RaceFrame

-----------------------------------------------------------------------------
(* The place of an inode on the disk: Ext2Layout::inode_nth with           *)
(* inode_idx, and Ext2BlockGroupDesc::get_inode.  The descriptors are the  *)
(* ones Ext2BlockGroupDesc::find read from the image; get_inode hands      *)
(* Address::new the inode table's first block and a byte offset, which may *)
(* reach past that block.                                                  *)

\* disk_inode.rs: size_of::<Ext2Inode>() = 128 (scaled: two inodes in a block)
INODE_SIZE == 2

\* the blocks of the inode table of a group (inodes_per_group * 128 / 4096, rounded up)
InodeTableBlocks == (inodes_per_group * INODE_SIZE + BLOCK_SIZE - 1) \div BLOCK_SIZE

\* inode_table_block of the descriptors of the images: the table lies inside
\* its group, behind the two bitmap blocks
InodeTables ==
    {[g \in Groups |-> (g - 1) * blocks_per_group + first] :
        first \in 2..(blocks_per_group - InodeTableBlocks)}

\* the arguments Address::new is given
Address(block_id, offset) == [block_id |-> block_id, offset |-> offset]

NoAddress == Address(0, 0)

\* Ext2Layout::inode_idx: (blockgroup_idx, inode_innner_idx) of inode_id - 1;
\* inode_id = 0 overflows (a panic with overflow checks, usize::MAX without)
inode_idx(inode_id, checks) ==
    LET inode_seq == IF inode_id = 0 THEN WRAP - 1 ELSE inode_id - 1
    IN  [result |-> IF inode_id = 0 /\ checks THEN "panic:overflow" ELSE "ok",
         blockgroup_idx |-> inode_seq \div inodes_per_group,
         inode_innner_idx |-> inode_seq % inodes_per_group]

\* get_inode with the local index taken as the byte offset
get_inode_unscaled(inode_table_block, inode_innner_idx) ==
    Address(inode_table_block, inode_innner_idx)

\* Ext2BlockGroupDesc::get_inode: Address::new(self.inode_table_bid(),
\* inode_innner_idx * size_of::<Ext2Inode>())
get_inode(inode_table_block, inode_innner_idx) ==
    Address(inode_table_block, inode_innner_idx * INODE_SIZE)

IdleNth ==
    [op |-> "none", checks |-> FALSE, table |-> <<>>, inode_id |-> 0,
     blockgroup_idx |-> 0, inode_innner_idx |-> 0, address |-> NoAddress,
     inode |-> NoHandle, result |-> "none"]

InitNth ==
    /\ AllocIdle
    /\ \E v \in RootVariants : inodes = Image(v, 1)
    /\ fsop = NoFs
    /\ preFs = FsState(<<>>, <<>>, <<>>, <<>>)
    /\ \E checks \in Builds, table \in InodeTables :
          task = [t \in Threads |-> [IdleNth EXCEPT !.checks = checks, !.table = table]]
    /\ handed = <<>>

NthFrame ==
    /\ UNCHANGED allocVars
    /\ UNCHANGED fileVars
    /\ UNCHANGED dirVars
    /\ UNCHANGED <<device, cache, cop, shadow, writes, thr, meta, handed>>

\* Ext2Layout::inode_nth(inode_id): inode_idx, blockgroups.get(..).unwrap(),
\* get_inode, and Inode::new, which reads the file type of the inode
InodeNthCall(op, rec, inode_id, t) ==
    LET idx == inode_idx(inode_id, rec.checks)
        started == [rec EXCEPT !.op = op, !.inode_id = inode_id,
                               !.blockgroup_idx = 0, !.inode_innner_idx = 0,
                               !.address = NoAddress, !.inode = NoHandle]
    IN  IF idx.result # "ok"
        THEN [started EXCEPT !.result = idx.result]
        ELSE IF idx.blockgroup_idx >= NumGroups
        THEN [started EXCEPT !.result = "panic:unwrap"]
        ELSE LET made == inode_nth(t, inode_id, rec.checks)
             IN  [started EXCEPT
                     !.blockgroup_idx = idx.blockgroup_idx,
                     !.inode_innner_idx = idx.inode_innner_idx,
                     !.address = get_inode(rec.table[idx.blockgroup_idx + 1],
                                           idx.inode_innner_idx),
                     !.inode = made.inode,
                     !.result = made.result]

\* a thread calls layout.inode_nth(inode_id)
CallInodeNth(t) ==
    /\ \A u \in Threads : ~IsPanic(task[u].result)
    /\ \E inode_id \in 0..(NumGroups * inodes_per_group + 1) :
          task' = [task EXCEPT ![t] = InodeNthCall("inode_nth", @, inode_id, inodes)]
    /\ NthFrame

\* a thread calls layout.root_inode(): inode_nth(2).with_parent(2)
CallRootInode(t) ==
    /\ \A u \in Threads : ~IsPanic(task[u].result)
    /\ LET r == InodeNthCall("root_inode", task[t], ROOT_ID, inodes)
       IN  task' = [task EXCEPT ![t] =
                       IF r.result # "ok" THEN r
                       ELSE [r EXCEPT !.inode = with_parent(r.inode, ROOT_ID)]]
    /\ NthFrame

-----------------------------------------------------------------------------
(* The allocator over the block cache, flush and a second open.            *)
(* Ext2FileSystem::open clones the superblock out of the cache             *)
(* (filesystem.rs 38-41) and Ext2BlockGroupDesc::find clones the           *)
(* descriptors (blockgroup.rs 39-51); the allocator works on these copies  *)
(* (allocator.rs 31-45, self.free_blocks_count in blockgroup.rs 103 and    *)
(* 133) and on the bitmap blocks through block_device::modify              *)
(* (blockgroup.rs 93 and 135).  sb and bg are the copies, block_bitmap is  *)
(* what the engine reads of the bitmap blocks, device and cache are the    *)
(* blocks themselves.                                                      *)

\* filesystem.rs: block_device::read(0, 1024, ..): the block of the superblock
SUPERBLOCK_BID == 0
\* blockgroup.rs: block_device::read(1, 0, ..): the block of the descriptors
DESCRIPTORS_BID == 1

\* block_bitmap_addr of the descriptors of the images (group g of 1..NumGroups)
bitmap_block_bid(g) == DESCRIPTORS_BID + g

FsBlockIds == 0..(DESCRIPTORS_BID + NumGroups)

\* the device of an image
DeviceOf(s, b, bbm) ==
    [id \in FsBlockIds |->
        IF id = SUPERBLOCK_BID THEN s
        ELSE IF id = DESCRIPTORS_BID THEN b
        ELSE bbm[id - DESCRIPTORS_BID]]

\* a victim for the load of block id: the block pick where the cache allows it
VictimOf(c, id, pick) ==
    IF pick \in Victims(c, id) THEN pick ELSE CHOOSE v \in Victims(c, id) : TRUE

\* Ext2FileSystem::open: register_block_device, the read of the superblock
\* and find's read of the descriptors; the copies are what was read
open_layout(d, pick) ==
    LET fresh == register_block_device(d)
        s == block_device_read(fresh.cache, fresh.device, SUPERBLOCK_BID,
                               VictimOf(fresh.cache, SUPERBLOCK_BID, pick))
        b == block_device_read(s.cache, s.device, DESCRIPTORS_BID,
                               VictimOf(s.cache, DESCRIPTORS_BID, pick))
    IN  [sb |-> s.ret, bg |-> b.ret, cache |-> b.cache, device |-> b.device]

\* what the engine reads of the bitmap blocks
BitmapsOf(c, d) ==
    [g \in Groups |-> IF c[bitmap_block_bid(g)].resident THEN c[bitmap_block_bid(g)].buf
                      ELSE d[bitmap_block_bid(g)]]

\* the block_device::modify calls of alloc_blocks and dealloc_blocks, group
\* by group from group g on: the bitmap blocks that changed from old to new
RECURSIVE ModifyBitmaps(_, _, _, _, _, _)
ModifyBitmaps(c, d, g, old, new, pick) ==
    IF g > NumGroups THEN [cache |-> c, device |-> d]
    ELSE IF old[g] = new[g] THEN ModifyBitmaps(c, d, g + 1, old, new, pick)
    ELSE LET m == block_device_modify(c, d, bitmap_block_bid(g), new[g],
                                      VictimOf(c, bitmap_block_bid(g), pick))
         IN  ModifyBitmaps(m.cache, m.device, g + 1, old, new, pick)

Picks == FsBlockIds

\* the block bitmaps of the images: one block free in the view of the first
\* group, any number in the views of the others
FlushBlockBitmaps ==
    {bbm \in InitBlockBitmaps : ZeroBits([i \in ViewBits |-> bbm[1][i]]) = 1}

NoSnapshot == [sb |-> <<>>, bg |-> <<>>, block_bitmap |-> <<>>, inode_bitmap |-> <<>>]

InitFlush ==
    /\ \E bbm \in FlushBlockBitmaps, ibm \in InitInodeBitmaps :
          LET b == Descriptors(bbm, ibm)
              o == open_layout(DeviceOf(Superblock(b, 0), b, bbm), SUPERBLOCK_BID)
          IN  /\ block_bitmap = bbm
              /\ inode_bitmap = ibm
              /\ sb = o.sb
              /\ bg = o.bg
              /\ device = o.device
              /\ cache = o.cache
    /\ call = NoCall
    /\ pre = NoSnapshot
    /\ cop = NoCop
    /\ shadow = <<>>
    /\ writes = 0

FlushFrame ==
    /\ UNCHANGED <<pre, cop, shadow, writes>>
    /\ UNCHANGED fileVars
    /\ UNCHANGED dirVars
    /\ UNCHANGED <<thr, meta, task, handed>>

\* the outcome o of an allocator call c: the copies take the counters, the
\* bitmap blocks go through the cache
FlushCommit(c, o, pick) ==
    /\ call' = [c EXCEPT !.result = o.result, !.ret = o.ret]
    /\ sb' = o.sb
    /\ bg' = o.bg
    /\ block_bitmap' = o.block_bitmap
    /\ inode_bitmap' = o.inode_bitmap
    /\ LET m == ModifyBitmaps(cache, device, 1, block_bitmap, o.block_bitmap, pick)
       IN  /\ cache' = m.cache
           /\ device' = m.device
    /\ FlushFrame

\* allocator.alloc_data(needed)
CachedAllocData ==
    /\ call.op \in {"none", "open"}
    /\ \E needed \in 1..MaxNeeded, checks \in Builds, pick \in Picks :
          FlushCommit([NoCall EXCEPT !.op = "alloc_data", !.needed = needed],
                      alloc_data(needed, sb, bg, block_bitmap, inode_bitmap, checks), pick)

\* allocator.dealloc_data of the list the last alloc_data returned
CachedDeallocData ==
    /\ call.op = "alloc_data"
    /\ call.result = "ok"
    /\ \E checks \in Builds, pick \in Picks :
          FlushCommit([NoCall EXCEPT !.op = "dealloc_data", !.freed = call.ret],
                      dealloc_data(call.ret, sb, bg, block_bitmap, inode_bitmap, checks),
                      pick)

\* allocator.alloc_inode(is_dir)
CachedAllocInode ==
    /\ call.op \in {"none", "open"}
    /\ \E dir \in BOOLEAN, checks \in Builds, pick \in Picks :
          FlushCommit([NoCall EXCEPT !.op = "alloc_inode", !.is_dir = dir],
                      alloc_inode(dir, sb, bg, block_bitmap, inode_bitmap, checks), pick)

\* the caller takes the result of an allocator call that returned
CachedReturn ==
    /\ call.op \in {"alloc_data", "dealloc_data", "alloc_inode"}
    /\ ~panicked
    /\ call' = NoCall
    /\ UNCHANGED <<sb, bg, block_bitmap, inode_bitmap, device, cache>>
    /\ FlushFrame

\* Ext2FileSystem::flush()
FlushFs ==
    /\ call.op \in {"none", "alloc_data", "dealloc_data", "alloc_inode"}
    /\ ~panicked
    /\ LET o == flush(cache, device)
       IN  /\ cache' = o.cache
           /\ device' = o.device
    /\ call' = [NoCall EXCEPT !.op = "flush"]
    /\ UNCHANGED <<sb, bg, block_bitmap, inode_bitmap>>
    /\ FlushFrame

\* Ext2FileSystem::open on the device the flushed engine leaves
OpenFlushed ==
    /\ call.op = "flush"
    /\ \E pick \in Picks :
          LET o == open_layout(device, pick)
          IN  /\ sb' = o.sb
              /\ bg' = o.bg
              /\ cache' = o.cache
              /\ device' = o.device
              /\ block_bitmap' = BitmapsOf(o.cache, o.device)
    /\ call' = [NoCall EXCEPT !.op = "open"]
    /\ UNCHANGED inode_bitmap
    /\ FlushFrame

-----------------------------------------------------------------------------
(* Specifications.                                                         *)

Init == InitAlloc /\ FileIdle /\ FsIdle /\ CacheIdle /\ LockIdle /\ MetaIdle /\ ConcIdle

Next == AllocData \/ DeallocData \/ DeallocReturned \/ AllocInode \/ Return

Spec == Init /\ [][Next]_vars

InitF == AllocIdle /\ InitFile /\ FsIdle /\ CacheIdle /\ LockIdle /\ MetaIdle /\ ConcIdle

NextF ==
    ReadAt \/ WriteAt \/ SetLen \/ BlockNth \/ FileReturn
        \/ ReaderStart \/ ReaderStep \/ ReaderEnd

SpecFile == InitF /\ [][NextF]_vars

InitD == InitDir /\ FileIdle /\ CacheIdle /\ LockIdle /\ MetaIdle /\ ConcIdle

NextD ==
    Exists \/ Link \/ CreateFile \/ VfsCall \/ OpenFile \/ WriteOpened \/ Symlink
        \/ ReadSymlink \/ RemoveFile \/ FsReturn

SpecDir == InitD /\ [][NextD]_vars

InitC == AllocIdle /\ FileIdle /\ FsIdle /\ InitCache /\ LockIdle /\ MetaIdle /\ ConcIdle

NextC == ReadInode \/ ModifyInode \/ SyncInode \/ Flush \/ Open

SpecCache == InitC /\ [][NextC]_vars

InitL == AllocIdle /\ FileIdle /\ FsIdle /\ CacheIdle /\ InitLock /\ MetaIdle /\ ConcIdle

NextL ==
    \E t \in Threads : Start(t) \/ Acquire(t) \/ Release(t) \/ Panic(t) \/ Finish(t)

SpecLock == InitL /\ [][NextL]_vars

InitM == AllocIdle /\ FileIdle /\ FsIdle /\ CacheIdle /\ LockIdle /\ InitMeta /\ ConcIdle

NextM == Metadata

SpecMeta == InitM /\ [][NextM]_vars

InitA == InitConc /\ FileIdle /\ FsIdle /\ CacheIdle /\ LockIdle /\ MetaIdle

NextA ==
    \E t \in Threads :
        CallAlloc(t) \/ CallDealloc(t) \/ LockAllocator(t) \/ Admit(t) \/ AllocGroup(t)
            \/ DeallocGroup(t) \/ CountSuperblock(t) \/ UnlockAllocator(t)

SpecConc == InitA /\ [][NextA]_vars

InitR == InitRace /\ FileIdle /\ CacheIdle /\ LockIdle /\ MetaIdle

NextR == \E t \in Threads : CallFs(t) \/ WalkFs(t) \/ CheckFs(t) \/ InsertFs(t)

SpecRace == InitR /\ [][NextR]_vars

InitN == InitNth /\ FileIdle /\ CacheIdle /\ LockIdle /\ MetaIdle

NextN == \E t \in Threads : CallInodeNth(t) \/ CallRootInode(t)

SpecNth == InitN /\ [][NextN]_vars


InitW == InitFlush /\ FileIdle /\ FsIdle /\ LockIdle /\ MetaIdle /\ ConcIdle

NextW ==
    CachedAllocData \/ CachedDeallocData \/ CachedAllocInode \/ CachedReturn
        \/ FlushFs \/ OpenFlushed

SpecFlush == InitW /\ [][NextW]_vars

-----------------------------------------------------------------------------
(* Properties of the allocator (checked under Spec).                       *)

GroupCounts == [g \in Groups |-> bg[g].free_blocks_count]

\* the block ids (absolute) of the bits of group g that the last call set
NewlyUsed(g) ==
    {(g - 1) * blocks_per_group + k : k \in
        {i \in Bits : pre.block_bitmap[g][i] = 0 /\ block_bitmap[g][i] = 1}}

\* the bit of an absolute block id in the bitmaps bbm
BitOf(bbm, id) == bbm[(id \div blocks_per_group) + 1][id % blocks_per_group]

\* C1: between calls (after any sequence of alloc_data and dealloc_data calls
\* that returned), every group's free_blocks_count is the number of zero bits
\* of the group's block bitmap.
C1_GroupCountIsZeroBits ==
    ~panicked => \A g \in Groups : bg[g].free_blocks_count = ZeroBits(block_bitmap[g])

\* a dealloc_data of two blocks of one group has returned
C1_Witness ==
    /\ call.op = "dealloc_data"
    /\ call.result = "ok"
    /\ Len(call.freed) = 2
    /\ bg[1].free_blocks_count = pre.bg[1].free_blocks_count + 2

\* C2: after any sequence of completed alloc_data and dealloc_data calls the
\* sum of the groups' free_blocks_count is the superblock's free_blocks_count.
C2_SumIsSuperblockCount ==
    ~panicked => SumSeq(GroupCounts) = sb.free_blocks_count

\* a dealloc_data of blocks of two groups has returned
C2_Witness ==
    /\ call.op = "dealloc_data"
    /\ call.result = "ok"
    /\ \A g \in {1, NumGroups} : bg[g].free_blocks_count = pre.bg[g].free_blocks_count + 1
    /\ sb.free_blocks_count = pre.sb.free_blocks_count + 2

\* C3: alloc_data(n) fails with NoFreeBlocks exactly when
\* n > free_blocks_count - r_blocks_count, and then the bitmaps, the groups'
\* counters and the superblock are as before the call.
C3_NoFreeBlocksExactly ==
    call.op = "alloc_data" =>
        /\ (call.result = "NoFreeBlocks") <=>
               (call.needed > pre.sb.free_blocks_count - pre.sb.r_blocks_count)
        /\ call.result = "NoFreeBlocks" => Snapshot = pre

\* alloc_data(n) refused although n blocks are free: one of them is reserved
C3_Witness ==
    /\ call.op = "alloc_data"
    /\ call.result = "NoFreeBlocks"
    /\ call.needed = pre.sb.free_blocks_count
    /\ pre.sb.r_blocks_count > 0
    /\ Snapshot = pre

\* the counters of the state the last call started in agree with its bitmaps
PreConsistent ==
    /\ \A g \in Groups :
          /\ pre.bg[g].free_blocks_count = ZeroBits(pre.block_bitmap[g])
          /\ pre.bg[g].free_inodes_count = ZeroBits(pre.inode_bitmap[g])
    /\ pre.sb.free_blocks_count = SumSeq([g \in Groups |-> pre.bg[g].free_blocks_count])
    /\ pre.sb.free_inodes_count = SumSeq([g \in Groups |-> pre.bg[g].free_inodes_count])

Distinct(seq) == \A i, j \in DOMAIN seq : i # j => seq[i] # seq[j]

\* C4: from a state whose counters agree with the bitmaps, alloc_data(n) with
\* 1 <= n <= free_blocks_count - r_blocks_count returns n pairwise distinct
\* block ids, each free before the call and used after it, and takes n off
\* the superblock's free_blocks_count; the assertion unmet == 0 holds.
C4_AllocReturnsNFreeBlocks ==
    ( /\ call.op = "alloc_data"
      /\ PreConsistent
      /\ 1 <= call.needed
      /\ call.needed <= pre.sb.free_blocks_count - pre.sb.r_blocks_count )
    => /\ call.result = "ok"
       /\ Len(call.ret) = call.needed
       /\ Distinct(call.ret)
       /\ \A i \in DOMAIN call.ret :
             /\ BitOf(pre.block_bitmap, call.ret[i]) = 0
             /\ BitOf(block_bitmap, call.ret[i]) = 1
       /\ sb.free_blocks_count = pre.sb.free_blocks_count - call.needed

\* C5: the ids alloc_data returns are the absolute ids group_base + local_index
\* of the bits it set: ids of group g lie in
\* [g * blocks_per_group, (g + 1) * blocks_per_group).
C5_ReturnsAbsoluteIds ==
    (call.op = "alloc_data" /\ call.result = "ok") =>
        Range(call.ret) = UNION {NewlyUsed(g) : g \in Groups}

\* C6: the superblock's free_blocks_count never falls below r_blocks_count, so
\* free_blocks() does not underflow and no alloc_data takes a reserved block.
C6_ReserveIsKept == sb.free_blocks_count >= sb.r_blocks_count

\* alloc_data has handed out the last block that is not reserved
C6_Witness ==
    /\ call.op = "alloc_data"
    /\ call.result = "ok"
    /\ call.needed > 0
    /\ sb.r_blocks_count > 0
    /\ sb.free_blocks_count = sb.r_blocks_count

\* C7: alloc_inode fails with NoFreeInodes exactly when the superblock's
\* free_inodes_count is 0, and then the superblock, the groups' counters and
\* the bitmaps are as before the call.
C7_NoFreeInodesExactly ==
    call.op = "alloc_inode" =>
        /\ (call.result = "NoFreeInodes") <=> (pre.sb.free_inodes_count = 0)
        /\ call.result = "NoFreeInodes" => Snapshot = pre

\* alloc_inode refused on an image without a free inode
C7_Witness ==
    /\ call.op = "alloc_inode"
    /\ call.result = "NoFreeInodes"
    /\ pre.sb.free_inodes_count = 0
    /\ Snapshot = pre

\* the first group in index order that has a free inode before the call
FirstGroupWithInode ==
    CHOOSE g \in Groups :
        /\ pre.bg[g].free_inodes_count > 0
        /\ \A h \in Groups : pre.bg[h].free_inodes_count > 0 => g <= h

\* C8: with free_inodes_count > 0 and consistent counters alloc_inode returns
\* an inode of the first group that has a free inode, takes one off that
\* group's free_inodes_count and one off the superblock's, and does not reach
\* unreachable!().
C8_AllocInodeFirstGroup ==
    (call.op = "alloc_inode" /\ PreConsistent /\ pre.sb.free_inodes_count > 0) =>
        /\ call.result = "ok"
        /\ sb.free_inodes_count = pre.sb.free_inodes_count - 1
        /\ \A g \in Groups :
              bg[g].free_inodes_count =
                  pre.bg[g].free_inodes_count - (IF g = FirstGroupWithInode THEN 1 ELSE 0)
        /\ sb.free_inodes_count = SumSeq([g \in Groups |-> bg[g].free_inodes_count])

-----------------------------------------------------------------------------
(* Properties of the open file (checked under SpecFile).                   *)

Max(a, b) == IF a >= b THEN a ELSE b

\* the bytes [from, from + n) of the file of the image
ImageBytes(from, n) == [i \in 1..n |-> ImageByte(from + i - 1)]

\* C9: read_at(offset, buf) on an inode of size s returns
\* max(0, min(offset + buf.len(), s) - offset), puts exactly the file bytes
\* [offset, offset + returned) at the front of buf, and returns 0 when
\* offset >= s; a loop that reads chunk after chunk at increasing offsets ends
\* (after at most s + 1 reads) having delivered exactly the s bytes of the file.
C9_ReadAtClipsToSize ==
    LET s == file.size_low
    IN  /\ rd.op = "read_at" =>
              /\ rd.result = "ok"
              /\ rd.ret = Max(0, Min(rd.offset + rd.len, s) - rd.offset)
              /\ SubSeq(rd.buf, 1, rd.ret) = ImageBytes(rd.offset, rd.ret)
              /\ SubSeq(rd.buf, rd.ret + 1, rd.len) = ZeroBuf(rd.len - rd.ret)
              /\ rd.offset >= s => rd.ret = 0
        /\ reader.active =>
              /\ reader.offset <= s
              /\ reader.acc = ImageBytes(0, reader.offset)
              /\ reader.steps <= s + 1
              /\ reader.done => reader.offset = s

\* the loop of test_rw has ended on a file that reaches into the doubly
\* indirect blocks, read in chunks longer than a block that do not divide its
\* size; its last read_at, at offset = size, returned 0
C9_Witness ==
    /\ reader.done
    /\ file.size_low > INDIRECT_BOUND * BLOCK_SIZE + BLOCK_SIZE
    /\ reader.chunk > BLOCK_SIZE
    /\ file.size_low % reader.chunk # 0
    /\ Len(reader.acc) = file.size_low
    /\ rd.op = "read_at"
    /\ rd.offset = file.size_low
    /\ rd.ret = 0

\* C10: write_at(o, buf) followed by read_at(o, out) with out.len() = buf.len()
\* yields out = buf, for every offset o and buffer buf.
C10_WriteThenReadBack ==
    rd.op = "write_at" =>
        /\ rd.result = "ok"
        /\ read_at(file, disk, rd.offset, ZeroBuf(rd.len)).buf = rd.data

\* C11: set_len(len) returns Ok for every len in the addressable range, through
\* the grow path when size() < len and the shrink path when size() > len, and
\* afterwards size() = len; after set_len(0) read_at(0, buf) returns 0.
C11_SetLenSetsSize ==
    rd.op = "set_len" =>
        /\ rd.result = "ok"
        /\ size(file).v = rd.len
        /\ rd.len = 0 => read_at(file, disk, 0, ZeroBuf(MaxLen)).ret = 0

\* the claim's ranges of file-block indexes: 12 + P + P^2 + P^3 in the source's sizes
TRIPLE_COUNT == INDIRECT_COUNT * DOUBLE_COUNT
TRIPLE_BOUND == DOUBLE_BOUND + TRIPLE_COUNT

\* the pointer the four-range decomposition names for file block n
\* (slots 0-based in the claim, 1-based here)
SlotPointer(inode, d, n) ==
    IF n < DIRECT_COUNT THEN inode.direct_pointer[n + 1]
    ELSE IF n < INDIRECT_BOUND THEN d[inode.indirect_pointer][n - DIRECT_COUNT + 1]
    ELSE IF n < DOUBLE_BOUND
    THEN LET k == n - INDIRECT_BOUND
         IN  d[d[inode.doubly_indirect][(k \div INDIRECT_COUNT) + 1]][(k % INDIRECT_COUNT) + 1]
    ELSE LET k == n - DOUBLE_BOUND
             l2 == d[inode.triply_indirect][(k \div DOUBLE_COUNT) + 1]
             l1 == d[l2][((k % DOUBLE_COUNT) \div INDIRECT_COUNT) + 1]
         IN  d[l1][(k % INDIRECT_COUNT) + 1]

-----------------------------------------------------------------------------
(* Properties of the name space (checked under SpecDir).                   *)

\* the offset of record i of a directory: the lengths of the records before it
RECURSIVE OffsetOf(_, _)
OffsetOf(buffer, i) ==
    IF i <= 1 THEN 0 ELSE OffsetOf(buffer, i - 1) + buffer[i - 1].record_len

\* the sum of the record_len of the records that start in block k
RECURSIVE BlockSum(_, _, _)
BlockSum(buffer, k, i) ==
    IF i > Len(buffer) THEN 0
    ELSE (IF OffsetOf(buffer, i) \div DIR_BLOCK_SIZE = k THEN buffer[i].record_len ELSE 0)
             + BlockSum(buffer, k, i + 1)

DirSize(buffer) == OffsetOf(buffer, Len(buffer) + 1)

WellTiled(buffer) ==
    /\ \A i \in DOMAIN buffer :
          /\ buffer[i].record_len % REC_ALIGN = 0
          /\ buffer[i].record_len >= ceil(BARE_LEN + buffer[i].name_len, REC_ALIGN)
          /\ OffsetOf(buffer, i) \div DIR_BLOCK_SIZE
                 = (OffsetOf(buffer, i) + buffer[i].record_len - 1) \div DIR_BLOCK_SIZE
    /\ DirSize(buffer) % DIR_BLOCK_SIZE = 0
    /\ \A k \in 0..((DirSize(buffer) \div DIR_BLOCK_SIZE) - 1) :
          BlockSum(buffer, k, 1) = DIR_BLOCK_SIZE

Directories == {i \in InodeIds : inodes[i].filetype = "Directory"}

\* C13: after any sequence of directory inserts on a well-formed directory,
\* every block of the directory is tiled exactly by its records: each
\* record_len is a multiple of 4 and at least ceil4(8 + name_len), no record
\* crosses a block boundary, and the record_len of each block sum to the
\* block size.
C13_DirectoryTiled ==
    \A i \in Directories : WellTiled(from_inode(inodes, i))

\* C13 witness: a link has split the unused record of the second block of
\* the root directory, after an earlier insert into /d.
C13_Witness_SplitInSecondBlock ==
    /\ fsop.op = "link"
    /\ fsop.result = "ok"
    /\ Len(inodes[ROOT_ID].dir) = Len(preFs.inodes[ROOT_ID].dir) + 1
    /\ OffsetOf(inodes[ROOT_ID].dir, Len(inodes[ROOT_ID].dir)) > DIR_BLOCK_SIZE
    /\ inodes[ROOT_ID].dir[Len(inodes[ROOT_ID].dir)].name = <<"n">>
    /\ Len(inodes[D_ID].dir) > Len(SubDir)

\* the last component of a path given as a string
LastName(str) == VfsPathFrom(str).inner[Len(VfsPathFrom(str).inner)]

\* the directory a new path names: the inode its parent path resolves to
ParentOf(st, str) ==
    walk(st.inodes, root_inode(st.inodes, TRUE).inode, parent(VfsPathFrom(str)), <<>>, {}, TRUE)

\* the records of a directory that carry a name
Named(buffer, name) ==
    {i \in DOMAIN buffer : SubSeq(buffer[i].name, 1, buffer[i].name_len) = name}

\* a path that can be created: its parent resolves to a directory, its name
\* is new there and not too long
Fresh(st, str) ==
    /\ VfsPathFrom(str).inner # <<>>
    /\ ParentOf(st, str).result = "ok"
    /\ is_dir(ParentOf(st, str).inode)
    /\ Named(from_inode(st.inodes, ParentOf(st, str).inode.inode_id), LastName(str)) = {}
    /\ Len(LastName(str)) <= MAX_FILE_NAME

\* C14: whenever create_file(p) returns Ok, exists(p) is true afterwards and
\* the parent directory has an entry named last(p) that points to the newly
\* allocated inode; this holds for every prior content of the parent
\* directory: create_file of a fresh name succeeds while an inode is free
\* (test_create_file unwraps 200 such calls), also when no record of the
\* directory has room.
C14_CreateFileThenExists ==
    fsop.op = "create_file" =>
        /\ (Fresh(preFs, fsop.path) /\ free_inodes(preFs.sb) > 0) => fsop.result = "ok"
        /\ fsop.result = "ok" =>
              /\ exists(Now, VfsPathFrom(fsop.path), TRUE).ret
              /\ \E i \in Named(from_inode(inodes, ParentOf(preFs, fsop.path).inode.inode_id),
                                LastName(fsop.path)) :
                    /\ inodes[ParentOf(preFs, fsop.path).inode.inode_id].dir[i].inode_id = fsop.ret
                    /\ preFs.inodes[fsop.ret].filetype = "None"

\* the new path of a create_file or link
NewPath == IF fsop.op = "link" THEN fsop.from ELSE fsop.path

\* the inode the path a link links to resolves to
TargetOf(st, str) ==
    walk(st.inodes, root_inode(st.inodes, TRUE).inode, VfsPathFrom(str), <<>>, {}, TRUE)

\* the defect of a new path whose parent resolves: the parent is no
\* directory, the name is there already, the name is too long
Defect(st, str) ==
    IF VfsPathFrom(str).inner = <<>> \/ ParentOf(st, str).result # "ok" THEN "none"
    ELSE IF ~is_dir(ParentOf(st, str).inode) THEN "NotADirectory"
    ELSE IF Named(from_inode(st.inodes, ParentOf(st, str).inode.inode_id), LastName(str)) # {}
    THEN "AlreadyExists"
    ELSE IF Len(LastName(str)) > MAX_FILE_NAME THEN "TooLongFileName"
    ELSE "none"

C16_LinkSameInode ==
    (fsop.op = "link" /\ fsop.result = "ok") =>
        /\ TargetOf(Now, fsop.to).result = "ok"
        /\ TargetOf(Now, fsop.from).result = "ok"
        /\ TargetOf(Now, fsop.from).inode.inode_id = TargetOf(Now, fsop.to).inode.inode_id
        /\ inodes[TargetOf(Now, fsop.to).inode.inode_id].hard_links
               = preFs.inodes[TargetOf(Now, fsop.to).inode.inode_id].hard_links + 1
        /\ sb = preFs.sb /\ bg = preFs.bg /\ inode_bitmap = preFs.inode_bitmap

\* What a path resolves to by the rules of path resolution: names are looked
\* up from the root, directory by directory; a symlink met on the way is
\* replaced by its target, taken from the root when the target is absolute
\* and from the directory that holds the symlink when it is relative; more
\* than fuel symlinks is TooManyLinks.
RECURSIVE Resolve(_, _, _, _)
Resolve(t, dir_id, names, fuel) ==
    IF names = <<>> THEN [result |-> "ok", inode_id |-> dir_id]
    ELSE LET found == Named(t[dir_id].dir, Head(names))
             c == t[dir_id].dir[CHOOSE i \in found : TRUE].inode_id
             target == VfsPathFrom(t[c].target)
         IN  IF found = {} THEN [result |-> "NotFound", inode_id |-> 0]
             ELSE IF t[c].filetype = "SymbolicLink"
             THEN IF fuel = 0 THEN [result |-> "TooManyLinks", inode_id |-> 0]
                  ELSE Resolve(t, IF target.from_root THEN ROOT_ID ELSE dir_id,
                               target.inner \o Tail(names), fuel - 1)
             ELSE IF Tail(names) = <<>> THEN [result |-> "ok", inode_id |-> c]
             ELSE IF t[c].filetype = "Directory" THEN Resolve(t, c, Tail(names), fuel)
             ELSE [result |-> "NotADirectory", inode_id |-> 0]

Resolved(st, str) ==
    Resolve(st.inodes, ROOT_ID, VfsPathFrom(str).inner, Cardinality(InodeIds))

\* C17: link(existing, new) fails with NotFound when existing does not
\* resolve because a name is missing, and with NotAFile when existing
\* resolves to anything other than a regular file and new can be made; when
\* link fails the hard_links of every inode and every directory are as they
\* were.
C17_LinkTargetErrors ==
    fsop.op = "link" =>
        /\ Resolved(preFs, fsop.to).result = "NotFound" => fsop.result = "NotFound"
        /\ (/\ Resolved(preFs, fsop.to).result = "ok"
            /\ preFs.inodes[Resolved(preFs, fsop.to).inode_id].filetype # "RegularFile"
            /\ Fresh(preFs, fsop.from))
              => fsop.result = "NotAFile"
        /\ fsop.result # "ok" => inodes = preFs.inodes

\* C18: walk terminates for every path on every image, also on images with
\* symlink cycles: no call that walks a path recurses without bound, and a
\* path that needs more symlink resolutions than the limit fails with
\* TooManyLinks (exists then answers false, link returns the error).
C18_WalkTerminates ==
    /\ fsop.op # "none" => fsop.result # "panic:stack"
    /\ (fsop.op = "exists" /\ Resolved(preFs, fsop.path).result = "TooManyLinks")
          => (fsop.result = "ok" /\ ~fsop.found)
    /\ (fsop.op = "link" /\ Resolved(preFs, fsop.to).result = "TooManyLinks")
          => fsop.result = "TooManyLinks"

\* C19: whenever walk resolves a symlink whose target is an absolute path,
\* the walk of the target starts from the root inode (inode 2), whether the
\* symlink is an intermediate or the final component of the path and
\* whatever directory holds it.
C19_AbsoluteFromRoot ==
    fsop.op = "exists" =>
        \A i \in DOMAIN fsop.steps :
            fsop.steps[i].absolute => fsop.steps[i].start = ROOT_ID

\* C19 witness: exists("/d/t") where /d/t, the final component, held by /d,
\* has the absolute target /f: the target was walked and found.
C19_Witness_FinalInSubdir ==
    /\ fsop.op = "exists"
    /\ fsop.path = <<"/", "d", "/", "t">>
    /\ inodes[T_ID].target = <<"/", "f">>
    /\ fsop.steps = <<[link |-> T_ID, absolute |-> TRUE, start |-> ROOT_ID]>>
    /\ fsop.result = "ok"
    /\ fsop.found

\* the directory that holds the entry of an inode (other than . and ..)
DirHolding(t, inode_id) ==
    CHOOSE dd \in {x \in InodeIds : t[x].filetype = "Directory"} :
        \E i \in DOMAIN t[dd].dir :
            /\ t[dd].dir[i].inode_id = inode_id
            /\ t[dd].dir[i].name \notin {Dot, DotDot}

\* C20: whenever walk resolves a symlink whose target is a relative path, the
\* walk of the target starts from the directory that holds the symlink, at
\* every depth of the path.
C20_RelativeFromContainingDir ==
    fsop.op = "exists" =>
        \A i \in DOMAIN fsop.steps :
            ~fsop.steps[i].absolute
                => fsop.steps[i].start = DirHolding(preFs.inodes, fsop.steps[i].link)

\* C21: walk fails with NotFound exactly when a component is absent from the
\* directory reached so far and with NotADirectory exactly when a component
\* must be looked up in an inode that, after symlink resolution, is not a
\* directory; exists(p) returns Ok(false) in these cases and Ok(true) when
\* the walk succeeds, never an error.
C21_WalkErrors ==
    fsop.op = "exists" =>
        /\ fsop.result = "ok"
        /\ (TargetOf(preFs, fsop.path).result = "NotFound")
               <=> (Resolved(preFs, fsop.path).result = "NotFound")
        /\ (TargetOf(preFs, fsop.path).result = "NotADirectory")
               <=> (Resolved(preFs, fsop.path).result = "NotADirectory")
        /\ fsop.found <=> (Resolved(preFs, fsop.path).result = "ok")

\* a path string that does not begin with '/'
NotFromRoot(str) == str = <<>> \/ Head(str) # "/"

\* the path strings of a call of VFS
VfsArgs ==
    IF fsop.op = "vfs.link" THEN {fsop.to, fsop.from} ELSE {fsop.path}

VfsOps == {"vfs.read_dir", "vfs.exists", "vfs.create_file", "vfs.link"}

\* C22: every VFS operation called with a path string that does not begin
\* with '/' returns InvalidPath without invoking the file system: inodes,
\* directories, counters and bitmaps are as they were.
C22_InvalidPath ==
    (fsop.op \in VfsOps /\ \E str \in VfsArgs : NotFromRoot(str)) =>
        /\ fsop.result = "InvalidPath"
        /\ fsop.steps = <<>>
        /\ Now = preFs

\* C22 witness: read_dir("d"), a string the walk from the root would
\* resolve to the directory /d, is refused, on an image an earlier link
\* has changed.
C22_Witness_ReadDirRelative ==
    /\ fsop.op = "vfs.read_dir"
    /\ fsop.path = <<"d">>
    /\ fsop.result = "InvalidPath"
    /\ Len(inodes[D_ID].dir) > Len(SubDir)

\* the inode the last name of a path names in the directory its parent
\* resolves to, before any symlink in that place is followed (0: none)
NamedBy(st, str) ==
    LET dd == Resolve(st.inodes, ROOT_ID, parent(VfsPathFrom(str)).inner,
                      Cardinality(InodeIds))
    IN  IF VfsPathFrom(str).inner = <<>> \/ dd.result # "ok" THEN 0
        ELSE IF st.inodes[dd.inode_id].filetype # "Directory" THEN 0
        ELSE IF Named(st.inodes[dd.inode_id].dir, LastName(str)) = {} THEN 0
        ELSE st.inodes[dd.inode_id].dir[
                 CHOOSE i \in Named(st.inodes[dd.inode_id].dir, LastName(str)) : TRUE].inode_id

\* a path whose final component is a symlink to an existing regular file
SymlinkToFile(st, str) ==
    /\ NamedBy(st, str) # 0
    /\ st.inodes[NamedBy(st, str)].filetype = "SymbolicLink"
    /\ Resolved(st, str).result = "ok"
    /\ st.inodes[Resolved(st, str).inode_id].filetype = "RegularFile"

\* C23: open_file on a path whose final component is a symlink to an
\* existing regular file returns the inode of the target file, and bytes
\* written at offset 0 through the inode so opened are the bytes read back
\* from the target.
C23_OpenFollowsSymlink ==
    /\ (fsop.op \in {"open_file", "write_at"} /\ SymlinkToFile(preFs, fsop.path)) =>
          /\ fsop.op = "open_file" => fsop.result = "ok"
          /\ fsop.ret = Resolved(preFs, fsop.path).inode_id
    /\ fsop.op = "write_at" =>
          /\ fsop.result = "ok"
          /\ read_at(file, disk, 0, ZeroBuf(Len(fsop.data))).buf = fsop.data

\* C24: when flush() is followed by the opening of a fresh engine, with a
\* fresh cache, on the same device, what the new engine reads at every
\* inode (the input of read_dir("/") and of metadata(p)) is what the old
\* engine read just before the flush.
C24_FlushThenReopen ==
    (cop.op = "open" /\ cop.after_flush) => View(cache, device) = cop.view

\* C24 witness: a fresh engine opened after a flush that had dirty blocks
\* to write back, one of them holding a value written by a modify
C24_Witness_ReopenAfterDirtyFlush ==
    /\ cop.op = "open"
    /\ cop.after_flush
    /\ cache = EmptyCache
    /\ \E b \in cop.dirty : cop.view[b] # 0 /\ device[b] = cop.view[b]

\* C25: no update made through the cache is lost: every read of a block
\* returns the value the last modify of that block wrote, for every choice
\* of the slot to reuse, also after the block was evicted; and a block
\* that is not dirty, or not resident, has its value on the device.
C25_NoLostUpdate ==
    /\ cop.op = "read" => cop.ret = shadow[cop.block].val
    /\ \A b \in BlockIds :
          /\ \A victim \in Victims(cache, b) :
                read_disk_inode(cache, device, [block_id |-> b], victim).ret = shadow[b].val
          /\ b \notin Dirty(cache) => device[b] = shadow[b].val

\* C25 witness: a read that missed the cache returns a modified value that
\* reached the device only because the block was evicted while dirty
C25_Witness_ReadAfterEviction ==
    /\ cop.op = "read"
    /\ ~cop.hit
    /\ shadow[cop.block].via = "evict"
    /\ cop.ret = shadow[cop.block].val
    /\ cop.ret # 0

\* a thread that waits for a mutex another thread holds
Waits(t) == AtInstr(t, "acquire") /\ Holder(Instr(t).mutex) \ {t} # {}

RECURSIVE StuckIn(_, _)
\* the threads of S that can never move again: they spin, or wait for a
\* mutex held by such a thread
StuckIn(S, n) ==
    IF n = 0 THEN S
    ELSE StuckIn({t \in S : \/ thr[t].status = "spin"
                            \/ Waits(t) /\ Holder(Instr(t).mutex) \subseteq S}, n - 1)

Deadlocked == StuckIn(Threads, NumThreads + 1)

\* C26: every operation acquires mutexes in the order VFS operation,
\* allocator, group descriptor, block cache, never acquires a mutex it
\* already holds (block-cache accesses made inside a typed-view closure
\* included), and no thread is ever deadlocked.
C26_LockDiscipline ==
    /\ \A t \in Threads : thr[t].ordered /\ thr[t].status # "spin"
    /\ Deadlocked = {}

\* the acquisitions respect the lock order wherever a mutex is not taken twice
LockOrderKept == \A t \in Threads : thr[t].ordered

\* without a thread that took the block-cache mutex twice nobody is deadlocked
DeadlockOnlyBySpin == (\A t \in Threads : thr[t].status # "spin") => Deadlocked = {}

\* C27: for every 12-bit mode, the permissions metadata() reports have for
\* user, group and other a read, write and execute flag equal to the mode
\* bits U_READ .. O_EXEC.
C27_PermissionBits ==
    meta.called =>
        /\ meta.permissions.user.read = contains(meta.mode, U_READ)
        /\ meta.permissions.user.write = contains(meta.mode, U_WRITE)
        /\ meta.permissions.user.execute = contains(meta.mode, U_EXEC)
        /\ meta.permissions.group.read = contains(meta.mode, G_READ)
        /\ meta.permissions.group.write = contains(meta.mode, G_WRITE)
        /\ meta.permissions.group.execute = contains(meta.mode, G_EXEC)
        /\ meta.permissions.others.read = contains(meta.mode, O_READ)
        /\ meta.permissions.others.write = contains(meta.mode, O_WRITE)
        /\ meta.permissions.others.execute = contains(meta.mode, O_EXEC)

\* the write flags are the mode bits
WriteBitsKept ==
    meta.called =>
        /\ meta.permissions.user.write = contains(meta.mode, U_WRITE)
        /\ meta.permissions.group.write = contains(meta.mode, G_WRITE)
        /\ meta.permissions.others.write = contains(meta.mode, O_WRITE)

\* C28: symlink(target, new) on a path that can be created succeeds for a
\* target of every length, read_symlink on the new inode then returns the
\* target as it was given, and read_symlink on a symlink of more than 60
\* bytes returns its target without a panic.
C28_SymlinkRoundTrip ==
    /\ (fsop.op = "symlink" /\ Fresh(preFs, fsop.from) /\ free_inodes(preFs.sb) > 0) =>
          /\ fsop.result = "ok"
          /\ NamedBy(Now, fsop.from) # 0
          /\ inodes[NamedBy(Now, fsop.from)].filetype = "SymbolicLink"
          /\ read_symlink(inodes, Handle(NamedBy(Now, fsop.from), "SymbolicLink", 0))
                = [result |-> "ok", ret |-> fsop.to]
    /\ fsop.op = "read_symlink" =>
          /\ fsop.result = "ok"
          /\ fsop.list = inodes[fsop.ret].target

\* read_symlink returns the target of every symlink of at most 60 bytes
ShortSymlinkRead ==
    (fsop.op = "read_symlink" /\ Len(inodes[fsop.ret].target) <= SYMLINK_INLINE) =>
        /\ fsop.result = "ok"
        /\ fsop.list = inodes[fsop.ret].target

\* symlink never returns Ok
SymlinkNeverOk == fsop.op = "symlink" => fsop.result # "ok"

\* C29: remove_file(p) on a regular file whose inode has hard_links >= 2
\* returns Ok, removes the entry p, decrements hard_links by 1 and frees
\* neither the inode nor anything else; the inode is freed only when
\* hard_links reaches 0.
C29_RemoveKeepsLinkedInode ==
    (/\ fsop.op = "remove_file"
     /\ NamedBy(preFs, fsop.path) # 0
     /\ preFs.inodes[NamedBy(preFs, fsop.path)].filetype = "RegularFile") =>
        /\ fsop.result = "ok"
        /\ NamedBy(Now, fsop.path) = 0
        /\ inodes[NamedBy(preFs, fsop.path)].hard_links
              = preFs.inodes[NamedBy(preFs, fsop.path)].hard_links - 1
        /\ preFs.inodes[NamedBy(preFs, fsop.path)].hard_links >= 2 =>
              /\ inodes[NamedBy(preFs, fsop.path)].filetype = "RegularFile"
              /\ Now.sb = preFs.sb
              /\ Now.inode_bitmap = preFs.inode_bitmap
        /\ preFs.inodes[NamedBy(preFs, fsop.path)].hard_links = 1 =>
              free_inodes(Now.sb) = free_inodes(preFs.sb) + 1

\* the ids of the blocks that are free in the bitmaps bbm
FreeIds(bbm) == {id \in 0..(NumGroups * blocks_per_group - 1) : BitOf(bbm, id) = 0}

RECURSIVE FirstOf(_, _)
\* the n least elements of S in ascending order: scan order is the order of
\* the ids (groups in index order, words ascending, bits from the lowest up)
FirstOf(S, n) ==
    IF n = 0 \/ S = {} THEN <<>>
    ELSE <<CHOOSE m \in S : \A x \in S : m <= x>>
            \o FirstOf(S \ {CHOOSE m \in S : \A x \in S : m <= x}, n - 1)

\* the free bits of the bitmap views, as pairs <<group, local index>>
ViewFree(bbm) == {id \in FreeIds(bbm) : id % blocks_per_group \in ViewBits}

\* C30: allocation is deterministic first-fit: an alloc_data(n) that returns
\* Ok returns the first n blocks that were free, in scan order (groups in
\* index order, words ascending, bits from the lowest up), and a second run
\* from the same state returns the same list and leaves the same state.
C30_FirstFit ==
    (call.op = "alloc_data" /\ call.result = "ok" /\ PreConsistent) =>
        /\ call.ret = FirstOf(FreeIds(pre.block_bitmap), call.needed)
        /\ \A checks \in Builds :
              LET again == alloc_data(call.needed, pre.sb, pre.bg, pre.block_bitmap,
                                      pre.inode_bitmap, checks)
              IN  again.result = "ok" =>
                     /\ again.ret = call.ret
                     /\ again.sb = sb
                     /\ again.bg = bg
                     /\ again.block_bitmap = block_bitmap

\* a second run of a call that returned Ok, from the same state, returns the same
AllocRepeatable ==
    (call.op = "alloc_data" /\ call.result = "ok") =>
        \A checks \in Builds :
            LET again == alloc_data(call.needed, pre.sb, pre.bg, pre.block_bitmap,
                                    pre.inode_bitmap, checks)
            IN  again.result = "ok" =>
                   /\ again.ret = call.ret
                   /\ again.sb = sb
                   /\ again.bg = bg
                   /\ again.block_bitmap = block_bitmap

\* the bits alloc_data sets are the first free bits of the bitmap views in
\* scan order, and the list returned holds their indices inside the group
FirstFitInView ==
    (call.op = "alloc_data" /\ call.result = "ok" /\ PreConsistent) =>
        /\ FreeIds(pre.block_bitmap) \ FreeIds(block_bitmap)
              = Range(FirstOf(ViewFree(pre.block_bitmap), call.needed))
        /\ call.ret = [i \in 1..call.needed |->
                          FirstOf(ViewFree(pre.block_bitmap), call.needed)[i] % blocks_per_group]

-----------------------------------------------------------------------------
(* Further properties of the allocator (checked under Spec).               *)

\* the number of bits of the bitmap to that are set and were clear in from
BitsSet(from, to) == Cardinality({i \in Bits : from[i] = 0 /\ to[i] = 1})

\* C31: a group's alloc_blocks(num) sets at most num bitmap bits and returns
\* at most num ids for every num >= 0; in particular alloc_data(0) returns an
\* empty list and leaves every bitmap, every group counter and the superblock
\* counter unchanged.
C31_AllocAtMostNum ==
    /\ \A g \in Groups, num \in 0..MaxNeeded, checks \in Builds :
          /\ BitsSet(block_bitmap[g],
                     alloc_blocks(block_bitmap[g], bg[g].free_blocks_count, num, checks).bm)
                <= num
          /\ Len(alloc_blocks(block_bitmap[g], bg[g].free_blocks_count, num, checks).vec)
                <= num
    /\ (call.op = "alloc_data" /\ call.needed = 0) =>
          /\ call.result = "ok"
          /\ call.ret = <<>>
          /\ Snapshot = pre

\* for num >= 1 alloc_blocks(num) sets at most num bits and returns at most
\* num ids, and alloc_data(n) with n >= 1 sets at most n bits in all
AllocAtMostPositiveNum ==
    /\ \A g \in Groups, num \in 1..MaxNeeded, checks \in Builds :
          /\ BitsSet(block_bitmap[g],
                     alloc_blocks(block_bitmap[g], bg[g].free_blocks_count, num, checks).bm)
                <= num
          /\ Len(alloc_blocks(block_bitmap[g], bg[g].free_blocks_count, num, checks).vec)
                <= num
    /\ (call.op = "alloc_data" /\ call.needed >= 1) =>
          /\ SumSeq([g \in Groups |-> BitsSet(pre.block_bitmap[g], block_bitmap[g])])
                <= call.needed
          /\ Len(call.ret) <= call.needed

\* alloc_data(0) returns an empty list and changes nothing when no group has
\* a free bit in its bitmap view
AllocZeroOnFullViews ==
    (/\ call.op = "alloc_data"
     /\ call.needed = 0
     /\ \A g \in Groups : \A i \in ViewBits : pre.block_bitmap[g][i] = 1) =>
        /\ call.result = "ok"
        /\ call.ret = <<>>
        /\ Snapshot = pre

\* the list of the last call names a block of the image whose bit was clear
NamesClearBit ==
    \E i \in DOMAIN call.freed :
        /\ bg_idx(call.freed[i]) < NumGroups
        /\ BitOf(pre.block_bitmap, call.freed[i]) = 0

\* every block of the list lies in a group and in the bitmap view of its group
AllInView ==
    \A i \in DOMAIN call.freed :
        /\ bg_idx(call.freed[i]) < NumGroups
        /\ call.freed[i] % blocks_per_group \in ViewBits

\* C32: dealloc_data never completes for a list that names a block whose
\* bitmap bit is already clear, or that names the same block twice: the call
\* panics (by the assertion of dealloc_blocks when the blocks lie in the
\* bitmap views), so no completed dealloc_data leaves a group's
\* free_blocks_count larger than the number of zero bits of its bitmap.
C32_DoubleFreeNeverCompletes ==
    /\ (call.op = "dealloc_data" /\ (NamesClearBit \/ ~Distinct(call.freed))) =>
          /\ IsPanic(call.result)
          /\ AllInView => call.result = "panic:assert"
    /\ (call.op = "dealloc_data" /\ call.result = "ok") =>
          \A g \in Groups : bg[g].free_blocks_count <= ZeroBits(block_bitmap[g])

\* a block in use was named twice: the second visit found its bit clear
C32_Witness_DoubleFree ==
    /\ call.op = "dealloc_data"
    /\ Len(call.freed) = 2
    /\ call.freed[1] = call.freed[2]
    /\ bg_idx(call.freed[1]) < NumGroups
    /\ BitOf(pre.block_bitmap, call.freed[1]) = 1
    /\ call.result = "panic:assert"

\* C33: alloc_data(n) immediately followed by dealloc_data of the returned
\* list restores every block bitmap, every group's free_blocks_count and the
\* superblock's free_blocks_count to their values before the alloc, also when
\* the allocation spans more than one block group.
C33_AllocThenDeallocRestores ==
    call.op = "dealloc_returned" => (call.result = "ok" /\ Snapshot = pre)

\* the state is restored when the first group's bitmap view had room for the
\* whole allocation: the ids returned are then those of the blocks taken
AllocThenDeallocInFirstGroup ==
    (/\ call.op = "dealloc_returned"
     /\ Cardinality({i \in ViewBits : pre.block_bitmap[1][i] = 0}) >= call.needed) =>
        (call.result = "ok" /\ Snapshot = pre)

\* the local indices alloc_blocks returns on bitmap bm when asked for every
\* bit of a bitmap block
Obtainable(bm, cnt) == Range(alloc_blocks(bm, cnt, BLOCK_BITS, FALSE).vec)

\* C34: the bitmap view used by alloc_blocks and dealloc_blocks has exactly
\* one bit for every entity of a one-block bitmap (BYTE_BITS * BLOCK_SIZE
\* bits, bit k of word w = local index UNIT_WIDTH * w + k): for every block id
\* of the group, dealloc_blocks' word index lies inside the view, and
\* alloc_blocks can return every free local index up to blocks_per_group - 1.
C34_ViewCoversBitmap ==
    /\ BitmapWords * UNIT_WIDTH = BLOCK_BITS
    /\ \A id \in 0..(NumGroups * blocks_per_group - 1) :
          decomposition(id)[1] < BitmapWords
    /\ (call.op = "dealloc_data" /\ \A i \in DOMAIN call.freed : bg_idx(call.freed[i]) < NumGroups)
          => call.result # "panic:index"
    /\ \A g \in Groups :
          {i \in Bits : block_bitmap[g][i] = 0}
              \subseteq Obtainable(block_bitmap[g], bg[g].free_blocks_count)

\* inside the view bit k of word w is local index UNIT_WIDTH * w + k: the
\* word index of dealloc_blocks lies in the view and alloc_blocks can return
\* every free local index of the view, and no other
ViewIndexing ==
    /\ \A i \in ViewBits :
          /\ decomposition(i)[1] < BitmapWords
          /\ decomposition(i)[1] * UNIT_WIDTH + decomposition(i)[2] = i
    /\ \A g \in Groups :
          Obtainable(block_bitmap[g], bg[g].free_blocks_count)
              = {i \in ViewBits : block_bitmap[g][i] = 0}

-----------------------------------------------------------------------------
(* Properties of concurrent calls on the allocator (checked under SpecConc). *)

\* every call has returned: no thread is inside a call, waits for the
\* allocator or has panicked
AllReturned == \A t \in Threads : task[t].pc = "idle"

\* C35: under every interleaving of concurrent alloc_data and dealloc_data
\* calls from several threads, the id lists returned by the alloc_data calls
\* are pairwise disjoint unless an id was freed in between, and the per-group
\* and global counter invariants hold once all calls have returned.
C35_ConcurrentAllocDisjoint ==
    /\ \A id \in BlockIdSet : handed[id] <= 1
    /\ AllReturned =>
          /\ \A g \in Groups : bg[g].free_blocks_count = ZeroBits(block_bitmap[g])
          /\ SumSeq(GroupCounts) = sb.free_blocks_count

\* the scan and the counter update of a group are not interleaved with
\* another call: at most one thread is inside the allocator, and the
\* counters agree with the bitmaps whenever no thread is inside and none
\* has panicked
AllocatorExclusive ==
    /\ \A t, u \in Threads : (InAllocator(t) /\ InAllocator(u)) => t = u
    /\ (\A t \in Threads : ~InAllocator(t)) =>
          /\ \A g \in Groups : bg[g].free_blocks_count = ZeroBits(block_bitmap[g])
          /\ SumSeq(GroupCounts) = sb.free_blocks_count

-----------------------------------------------------------------------------
(* Further properties of the name space (checked under SpecDir).           *)

\* no directory of the inode table t has two entries of one name
DuplicateFree(t) ==
    \A id \in InodeIds :
        t[id].filetype = "Directory" =>
            \A i, j \in DOMAIN t[id].dir :
                i # j => entries(id, t[id].dir)[i].name # entries(id, t[id].dir)[j].name

\* C36: after any sequence of create_file and link calls (succeeding or
\* failing) on an image without duplicate names, no directory contains two
\* entries with the same name, so the duplicate-name panic in find_single is
\* never reached.
C36_NoDuplicateNames ==
    /\ DuplicateFree(inodes)
    /\ fsop.result # "panic:explicit"

\* links have put the name n into / and into /d, once each
C36_Witness_NameInTwoDirectories ==
    /\ fsop.op = "link"
    /\ fsop.result = "ok"
    /\ Named(preFs.inodes[ROOT_ID].dir, <<"n">>) = {}
    /\ Cardinality(Named(inodes[ROOT_ID].dir, <<"n">>)) = 1
    /\ Cardinality(Named(inodes[D_ID].dir, <<"n">>)) = 1

\* the number of directory entries of the inode table t that reference id
Refs(t, id) ==
    SumSeq([d \in InodeIds |->
               IF t[d].filetype = "Directory"
               THEN Cardinality({i \in DOMAIN t[d].dir : t[d].dir[i].inode_id = id})
               ELSE 0])

\* C37: after any sequence of successful create_file and link calls, the
\* hard_links field of every regular-file inode equals the number of
\* directory entries that reference its inode id, and every inode allocated
\* by create_file is referenced by at least one entry, also when the parent
\* directory has no record with enough slack.
C37_LinkCountIsEntryCount ==
    (fsop.op \in {"create_file", "link"} /\ fsop.result = "ok") =>
        /\ \A id \in InodeIds :
              inodes[id].filetype = "RegularFile" => inodes[id].hard_links = Refs(inodes, id)
        /\ fsop.op = "create_file" => Refs(inodes, fsop.ret) >= 1

\* a link that stored its entry raised the link count of the inode the entry
\* references by one, and no other count
LinkCountFollowsEntry ==
    (/\ fsop.op = "link"
     /\ fsop.result = "ok"
     /\ \E d \in InodeIds : inodes[d].dir # preFs.inodes[d].dir) =>
        \A id \in InodeIds :
            inodes[id].hard_links - preFs.inodes[id].hard_links
                = Refs(inodes, id) - Refs(preFs.inodes, id)

-----------------------------------------------------------------------------
(* Properties of concurrent link and create_file (checked under SpecRace). *)

\* threads t and u have both finished a call for the same new path, and the
\* calls overlapped or followed each other
SamePath(t, u) ==
    /\ t # u
    /\ task[t].pc = "done"
    /\ task[u].pc = "done"
    /\ task[t].from = task[u].from

\* C38: when two threads call create_file (or link) with the same new path
\* concurrently, at most one call inserts the entry and the other fails with
\* AlreadyExists, so the directory never ends up with two entries of that
\* name.
C38_OneInsertPerName ==
    /\ DuplicateFree(inodes)
    /\ \A t, u \in Threads :
          (SamePath(t, u) /\ task[t].calls = 1 /\ task[u].calls = 1) =>
              ~(task[t].result = "ok" /\ task[u].result = "ok")

\* a call whose existence check comes after the name was stored fails with
\* AlreadyExists: check_valid_insert of a thread about to check finds a name
\* the directory holds once
CheckAfterInsertFails ==
    \A t \in Threads :
        (/\ task[t].pc = "check"
         /\ is_dir(task[t].dir)
         /\ Cardinality(Named(inodes[task[t].dir.inode_id].dir, LastName(task[t].from)))
               = 1) =>
            check_valid_insert(inodes, task[t].dir, VfsPathFrom(task[t].from))
                = "AlreadyExists"

-----------------------------------------------------------------------------
(* The place of an inode on the disk (checked under SpecNth).              *)

\* the first byte of the range an address names, counted from the start of the device
BytePos(a) == a.block_id * BLOCK_SIZE + a.offset

\* the bytes of an inode placed at an address
InodeBytes(a) == BytePos(a)..(BytePos(a) + INODE_SIZE - 1)

\* the address inode_nth computes for an inode id of the image
PlaceOf(table, inode_id) ==
    LET idx == inode_idx(inode_id, FALSE)
    IN  get_inode(table[idx.blockgroup_idx + 1], idx.inode_innner_idx)

\* C39: for every inode id >= 1 of the image, inode_nth maps the id to group
\* (id - 1) / inodes_per_group and local index (id - 1) mod inodes_per_group
\* and to the address inode-table start block + local index * the inode
\* size; distinct inode ids get disjoint byte ranges; the handle root_inode
\* returns is inode 2 with parent 2.
C39_InodeNthPlaces ==
    /\ \A t \in Threads :
          (task[t].op \in {"inode_nth", "root_inode"} /\ task[t].inode_id \in InodeIds) =>
              /\ task[t].result \notin {"panic:overflow", "panic:unwrap"}
              /\ task[t].blockgroup_idx = (task[t].inode_id - 1) \div inodes_per_group
              /\ task[t].inode_innner_idx = (task[t].inode_id - 1) % inodes_per_group
              /\ BytePos(task[t].address) =
                     task[t].table[task[t].blockgroup_idx + 1] * BLOCK_SIZE
                         + task[t].inode_innner_idx * INODE_SIZE
              /\ task[t].result = "ok" => task[t].inode.inode_id = task[t].inode_id
    /\ \A t, u \in Threads :
          (/\ task[t].op \in {"inode_nth", "root_inode"}
           /\ task[u].op \in {"inode_nth", "root_inode"}
           /\ task[t].inode_id \in InodeIds
           /\ task[u].inode_id \in InodeIds
           /\ task[t].inode_id # task[u].inode_id) =>
              InodeBytes(task[t].address) \cap InodeBytes(task[u].address) = {}
    /\ \A t \in Threads : \A i, j \in InodeIds :
          (task[t].op # "none" /\ i # j) =>
              InodeBytes(PlaceOf(task[t].table, i))
                  \cap InodeBytes(PlaceOf(task[t].table, j)) = {}
    /\ \A t \in Threads :
          (task[t].op = "root_inode" /\ task[t].result = "ok") =>
              /\ task[t].inode.inode_id = ROOT_ID
              /\ task[t].inode.parent_id = ROOT_ID

\* C39: one thread holds the root handle, the other the handle of an inode
\* of the second group whose place lies behind the first block of its table
C39_Witness_SecondGroupSecondBlock ==
    \E t, u \in Threads :
        /\ task[t].op = "root_inode"
        /\ task[t].result = "ok"
        /\ task[u].op = "inode_nth"
        /\ task[u].result = "ok"
        /\ task[u].blockgroup_idx = NumGroups - 1
        /\ task[u].address.offset >= BLOCK_SIZE

-----------------------------------------------------------------------------
(* The counters on the device after flush (checked under SpecFlush).       *)

\* the free-block and free-inode counts of the records on the device are
\* those of the copies in memory
RecordsCarryCopies ==
    /\ device[SUPERBLOCK_BID].free_blocks_count = sb.free_blocks_count
    /\ device[SUPERBLOCK_BID].free_inodes_count = sb.free_inodes_count
    /\ \A g \in Groups :
          /\ device[DESCRIPTORS_BID][g].free_blocks_count = bg[g].free_blocks_count
          /\ device[DESCRIPTORS_BID][g].free_inodes_count = bg[g].free_inodes_count

\* the counters of the device agree with its block bitmaps, group by group
\* and in the sum
DeviceCountersAgree ==
    /\ \A g \in Groups :
          device[DESCRIPTORS_BID][g].free_blocks_count
              = ZeroBits(device[bitmap_block_bid(g)])
    /\ device[SUPERBLOCK_BID].free_blocks_count
          = SumSeq([g \in Groups |-> device[DESCRIPTORS_BID][g].free_blocks_count])
    /\ device[SUPERBLOCK_BID].free_inodes_count
          = SumSeq([g \in Groups |-> device[DESCRIPTORS_BID][g].free_inodes_count])

\* C40: after allocator calls followed by flush(), the superblock record and
\* the descriptor records on the device carry the free-block and free-inode
\* counts of the copies in memory, and the bitmaps and counters of the
\* device, which a second open reads, satisfy the per-group and the global
\* counter invariants.
C40_FlushCarriesCounters ==
    call.op \in {"flush", "open"} =>
        /\ call.op = "flush" => RecordsCarryCopies
        /\ DeviceCountersAgree

\* C40 (supporting): flush leaves no block dirty, the bitmap blocks on the
\* device are the ones the engine worked on, and the superblock and
\* descriptor blocks on the device are never written
FlushWritesBitmapsOnly ==
    /\ block_bitmap = BitmapsOf(cache, device)
    /\ call.op = "flush" =>
          /\ Dirty(cache) = {}
          /\ \A g \in Groups : device[bitmap_block_bid(g)] = block_bitmap[g]
    /\ \A id \in {SUPERBLOCK_BID, DESCRIPTORS_BID} :
          cache[id].resident => ~cache[id].dirty

====
